---- MODULE Spec2Model ----
(***************************************************************************)
(* A model of the multi-site job scraper (src/multi_site_scraper.py).      *)
(*                                                                         *)
(* Python strings are modelled as sequences of short pieces, usually one   *)
(* character (<<"D","e","v">> is 'Dev'), so that strip() and the           *)
(* spreadsheet's cell conversions are computed and not assumed.  A data    *)
(* frame is the sequence of its rows; a row is a function from column      *)
(* names to strings.  After set_index('Job ID', drop=False) the index      *)
(* label of a row is the value of its 'Job ID' column.                     *)
(*                                                                         *)
(* Spec follows one run through the site loop, browser primitive by        *)
(* browser primitive; SpecMerge follows runs one after another against the *)
(* same output file, the site loop reduced to the records it collects.     *)
(***************************************************************************)
EXTENDS Integers, Sequences, FiniteSets, TLC

VARIABLES
    output_file,   \* rows of the spreadsheet at output_path; <<>> = no file
    all_jobs,      \* the run's batch of validated records
    phase,         \* "idle" between runs, "scraping" in the site loop,
                   \* "aborted" once an exception left run_multi_site_scraper
    runs,          \* runs started so far
    last,          \* what the latest finished run did
    prev,          \* the run before it, kept when it merged into no table
    site_filter,   \* the --sites allowlist of the run; <<>> = none given
    idx,           \* position of the site loop in Sites
    pc,            \* where the loop body stands for site idx
    res,           \* the scraper's handles: "none", "open" or "closed"
    attempt,       \* number of the scrape attempt in progress
    navs,          \* page.goto calls on the seed url, this site
    sleeps,        \* time.sleep calls of the scrape retry, this site
    extract_calls, \* runs of the extraction method, this site
    extract_errors,\* runs of the extraction method that hit an exception
    jobs,          \* what scrape() returned for this site
    status,        \* per site: "pending", "skipped", "ok" or "failed"
    torn,          \* per site: close_browser was called
    contrib,       \* per site: the records it added to all_jobs
    events,        \* the calls made for the site in hand, in order
    profile_store, \* the filter profile cache file: host key -> profile
    store_before,  \* that file as it was when the run started
    load_failed,   \* reading that file at the start of the run failed
    filter_profiles,  \* the run's dict of profiles
    profiles_updated, \* the run has a profile to save
    config,        \* per site: the entries the run adds to the site's dict
    applied,       \* per site: the filters its extraction applied
    call           \* the latest call of a helper: its arguments and result

mvars == <<output_file, all_jobs, phase, runs, last, prev>>

svars == <<site_filter, idx, pc, res, attempt, navs, sleeps, extract_calls,
           extract_errors, jobs, status, torn, contrib, events>>

pvars == <<profile_store, store_before, load_failed, filter_profiles,
           profiles_updated, config, applied>>

vars == <<mvars, svars, pvars, call>>

----------------------------------------------------------------------------
(* Strings *)

Whitespace == {" ", "\t", "\n"}

Digits == {"0", "1", "2", "3", "4", "5", "6", "7", "8", "9"}

RECURSIVE lstrip(_)
lstrip(s) == IF s # <<>> /\ Head(s) \in Whitespace THEN lstrip(Tail(s)) ELSE s

RECURSIVE rstrip(_)
rstrip(s) ==
    IF s # <<>> /\ s[Len(s)] \in Whitespace
    THEN rstrip(SubSeq(s, 1, Len(s) - 1))
    ELSE s

\* str.strip()
strip(s) == rstrip(lstrip(s))

\* str(float('nan')): what astype(str) makes of a missing cell
nan == <<"n", "a", "n">>

----------------------------------------------------------------------------
(* Identity and validation *)

JOB_SCHEMA ==
    << "Job ID", "Job Link", "Title", "Company", "Location", "Posted",
       "Minimum Requirements", "Good to Have", "Job Description",
       "Years of Experience", "Essential Keywords", "Source" >>

SchemaCols == {JOB_SCHEMA[i] : i \in DOMAIN JOB_SCHEMA}

\* hashlib.sha1(link).hexdigest(): TLC cannot compute SHA-1, so the digest is
\* the link under a tag: a function of the link alone, injective (no
\* collisions), never blank, never the link itself and never a number.
compute_job_id(link) == <<"#">> \o link

\* job.get(field, '')
Get(job, field) == IF field \in DOMAIN job THEN job[field] ELSE <<>>

required_fields == {"Job ID", "Job Link", "Title"}

validate_job_data_nostrip(job) == \A f \in required_fields : Get(job, f) # <<>>

validate_job_data(job) == \A f \in required_fields : strip(Get(job, f)) # <<>>

----------------------------------------------------------------------------
(* Records as the adapters emit them *)

\* s[:n]
Trunc(s, n) == SubSeq(s, 1, IF Len(s) < n THEN Len(s) ELSE n)

job_dict_id_of_title(link, title, company, location, years, source) ==
    [c \in SchemaCols |->
        CASE c = "Job ID" -> compute_job_id(title)
          [] c = "Job Link" -> link
          [] c = "Title" -> title
          [] c = "Company" -> company
          [] c = "Location" -> location
          [] c = "Years of Experience" -> years
          [] c = "Source" -> source
          [] OTHER -> <<>>]

\* a dict with every schema column; the columns not given are ''
job_dict(link, title, company, location, years, source) ==
    [c \in SchemaCols |->
        CASE c = "Job ID" -> compute_job_id(link)
          [] c = "Job Link" -> link
          [] c = "Title" -> title
          [] c = "Company" -> company
          [] c = "Location" -> location
          [] c = "Years of Experience" -> years
          [] c = "Source" -> source
          [] OTHER -> <<>>]

amazon_job(link, title, location, years) ==
    job_dict(link, title, <<"Amazon">>, location, years, <<"Amazon">>)

startswith(s, p) == Len(s) >= Len(p) /\ SubSeq(s, 1, Len(p)) = p

\* the piece "h" stands for the scheme and host of a url
http == <<"h">>

\* if not link.startswith("http"): link = <site origin> + link
absolute_link(origin, href) ==
    IF startswith(href, http) THEN href ELSE origin \o href

\* the Amazon adapter on the href of a candidate anchor
amazon_emit(href, title, location, years) ==
    amazon_job(absolute_link(http, href), title, location, years)

pg_job(link, title, location, years) ==
    job_dict(link, Trunc(title, 100), <<"P&G">>, Trunc(location, 150), years,
             <<"P&G", " ", "Careers">>)

linkedin_job(link, title, company, location, years) ==
    job_dict(link, title, company, location, years, <<"LinkedIn">>)

\* Company is the site name without ' Careers'
generic_job(name, link, title, location, years) ==
    LET NotCareers(x) == x # " Careers"
    IN  job_dict(link, Trunc(title, 120), SelectSeq(name, NotCareers),
                 Trunc(location, 150), years, name)

----------------------------------------------------------------------------
(* Text: str.lower, the in operator on strings, str.replace *)

UpperCase == <<"A", "B", "C", "D", "E", "F", "G", "H", "I", "J", "K", "L",
    "M", "N", "O", "P", "Q", "R", "S", "T", "U", "V", "W", "X", "Y", "Z">>

LowerCase == <<"a", "b", "c", "d", "e", "f", "g", "h", "i", "j", "k", "l",
    "m", "n", "o", "p", "q", "r", "s", "t", "u", "v", "w", "x", "y", "z">>

lower_char(c) ==
    IF \E i \in DOMAIN UpperCase : UpperCase[i] = c
    THEN LowerCase[CHOOSE i \in DOMAIN UpperCase : UpperCase[i] = c]
    ELSE c

lower(s) == [i \in DOMAIN s |-> lower_char(s[i])]

\* p in s
contains(s, p) ==
    \E i \in 0..(Len(s) - Len(p)) : SubSeq(s, i + 1, i + Len(p)) = p

\* s.find(p), 1-based from position `from`; Len(s) + 1 when there is none
Find(s, p, from) ==
    LET hits == {i \in from..(Len(s) - Len(p) + 1) : SubSeq(s, i,
        i + Len(p) - 1) = p}
    IN  IF hits = {} THEN Len(s) + 1
        ELSE CHOOSE i \in hits : \A j \in hits : i <= j

\* s.replace(old, ''), old not empty
RECURSIVE remove_all(_, _)
remove_all(s, old) ==
    LET i == Find(s, old, 1)
    IN  IF i > Len(s) THEN s
        ELSE SubSeq(s, 1, i - 1) \o remove_all(SubSeq(s, i + Len(old),
            Len(s)), old)

\* position of the first character of s, at or after `from`, that is in cs
FindAny(s, cs, from) ==
    LET hits == {i \in from..Len(s) : s[i] \in cs}
    IN  IF hits = {} THEN Len(s) + 1
        ELSE CHOOSE i \in hits : \A j \in hits : i <= j

----------------------------------------------------------------------------
(* urllib.parse.urlparse, as far as netloc and path *)

SchemeChars ==
    {LowerCase[i] : i \in DOMAIN LowerCase} \cup {UpperCase[i] : i \in DOMAIN UpperCase}
        \cup Digits \cup {"+", "-", "."}

\* the url after its scheme and the colon, or the url when it has no scheme
after_scheme(url) ==
    LET i == Find(url, <<":">>, 1)
    IN  IF /\ 1 < i /\ i <= Len(url)
           /\ url[1] \notin Digits \cup {"+", "-", "."}
           /\ \A j \in 1..(i - 1) : url[j] \in SchemeChars
        THEN SubSeq(url, i + 1, Len(url))
        ELSE url

has_netloc(rest) == startswith(rest, <<"/", "/">>)

netloc(url) ==
    LET rest == after_scheme(url)
    IN  IF has_netloc(rest)
        THEN SubSeq(rest, 3, FindAny(rest, {"/", "?", "#"}, 3) - 1)
        ELSE <<>>

path(url) ==
    LET rest == after_scheme(url)
        tail == IF has_netloc(rest)
                THEN SubSeq(rest, FindAny(rest, {"/", "?", "#"}, 3),
                    Len(rest))
                ELSE rest
    IN  SubSeq(tail, 1, FindAny(tail, {"?", "#"}, 1) - 1)

\* parsed.netloc.lower().replace('www.', '').strip()
get_site_profile_key(url) == strip(remove_all(lower(netloc(url)), <<"w", "w",
    "w", ".">>))

----------------------------------------------------------------------------
(* Filter profiles of generic sites *)

None == [none |-> TRUE]

DEFAULT_GENERIC_FILTERS ==
    [include_patterns |-> <<<<"/", "j", "o", "b">>, <<"/", "j", "o", "b", "s">>, <<"/", "s", "e",
        "a", "r", "c", "h">>, <<"w", "o", "r", "k", "d", "a", "y", "j", "o", "b", "s">>, <<"g",
        "r", "e", "e", "n", "h", "o", "u", "s", "e", ".", "i", "o">>, <<"l", "e", "v", "e", "r",
        ".", "c", "o">>>>,
     exclude_patterns |-> <<<<"/", "a", "b", "o", "u", "t">>, <<"/", "b", "l", "o", "g">>, <<"/",
         "n", "e", "w", "s">>, <<"/", "e", "v", "e", "n", "t">>, <<"/", "p", "r", "i", "v", "a",
         "c", "y">>, <<"/", "t", "e", "r", "m", "s">>, <<"/", "c", "o", "n", "t", "a", "c", "t">>,
         <<"/", "i", "n", "v", "e", "s", "t", "o", "r">>>>,
     title_must_contain |-> <<>>,
     max_jobs |-> 20]

include_hints ==
    <<<<"/", "j", "o", "b", "/">>, <<"/", "j", "o", "b", "s", "/">>, <<"/", "j", "o", "b", "?">>,
        <<"/", "j", "o", "b", "s", "?">>, <<"/", "s", "e", "a", "r", "c", "h", "/">>, <<"/", "s",
        "e", "a", "r", "c", "h", "?">>, <<"w", "o", "r", "k", "d", "a", "y", "j", "o", "b", "s">>,
        <<"g", "r", "e", "e", "n", "h", "o", "u", "s", "e", ".", "i", "o">>, <<"l", "e", "v", "e",
        "r", ".", "c", "o">>, <<"s", "m", "a", "r", "t", "r", "e", "c", "r", "u", "i", "t", "e",
        "r", "s">>, <<"i", "c", "i", "m", "s", ".", "c", "o", "m">>>>

infer_generic_filters_no_fallback(links) ==
    LET links_lower == [i \in DOMAIN links |-> lower(links[i])]
        hit(hint) == \E i \in DOMAIN links_lower : contains(links_lower[i], hint)
    IN  [include_patterns |-> SelectSeq(include_hints, hit),
         exclude_patterns |-> DEFAULT_GENERIC_FILTERS.exclude_patterns,
         title_must_contain |-> <<>>,
         max_jobs |-> DEFAULT_GENERIC_FILTERS.max_jobs]

infer_generic_filters(links) ==
    LET links_lower == [i \in DOMAIN links |-> lower(links[i])]
        hit(hint) == \E i \in DOMAIN links_lower : contains(links_lower[i], hint)
        include_patterns == SelectSeq(include_hints, hit)
    IN  [include_patterns |-> IF include_patterns # <<>> THEN include_patterns
                              ELSE DEFAULT_GENERIC_FILTERS.include_patterns,
         exclude_patterns |-> DEFAULT_GENERIC_FILTERS.exclude_patterns,
         title_must_contain |-> <<>>,
         max_jobs |-> DEFAULT_GENERIC_FILTERS.max_jobs]

\* [str(p).lower() for p in patterns if str(p).strip()]
clean_patterns(patterns) ==
    LET NotBlank(p) == strip(p) # <<>>
        kept == SelectSeq(patterns, NotBlank)
    IN  [i \in DOMAIN kept |-> lower(kept[i])]

any_in(patterns, s) == \E i \in DOMAIN patterns : contains(s, patterns[i])

bare_paths == {<<>>, <<"/">>, <<"/", "c", "a", "r", "e", "e", "r", "s">>, <<"/", "j", "o", "b",
    "s">>}

In(x, s) == \E i \in DOMAIN s : s[i] = x

\* s[:n]
head_slice(s, n) ==
    IF n >= 0 THEN Trunc(s, n)
    ELSE SubSeq(s, 1, IF Len(s) + n > 0 THEN Len(s) + n ELSE 0)

\* the loop over links: filtered is the list built so far
RECURSIVE filter_links_no_bare_path(_, _, _, _)
filter_links_no_bare_path(links, include_patterns, exclude_patterns, filtered) ==
    IF links = <<>> THEN filtered
    ELSE LET link == Head(links)
             lower_link == lower(link)
             skip == \/ (include_patterns # <<>> /\ ~any_in(include_patterns, lower_link))
                     \/ (exclude_patterns # <<>> /\ any_in(exclude_patterns, lower_link))
                     \/ In(link, filtered)
         IN  filter_links_no_bare_path(Tail(links), include_patterns, exclude_patterns,
                          IF skip THEN filtered ELSE Append(filtered, link))

RECURSIVE filter_links(_, _, _, _)
filter_links(links, include_patterns, exclude_patterns, filtered) ==
    IF links = <<>> THEN filtered
    ELSE LET link == Head(links)
             lower_link == lower(link)
             skip == \/ (include_patterns # <<>> /\ ~any_in(include_patterns, lower_link))
                     \/ (exclude_patterns # <<>> /\ any_in(exclude_patterns, lower_link))
                     \/ lower(strip(path(link))) \in bare_paths
                     \/ In(link, filtered)
         IN  filter_links(Tail(links), include_patterns, exclude_patterns,
                          IF skip THEN filtered ELSE Append(filtered, link))

apply_generic_filters_no_bare_path(links, filters) ==
    IF links = <<>> THEN <<>>
    ELSE LET effective_filters == IF filters = None THEN DEFAULT_GENERIC_FILTERS ELSE filters
             include_patterns == clean_patterns(effective_filters.include_patterns)
             exclude_patterns == clean_patterns(effective_filters.exclude_patterns)
             max_jobs == effective_filters.max_jobs
         IN  head_slice(filter_links_no_bare_path(links, include_patterns, exclude_patterns, <<>>),
                        max_jobs)

apply_generic_filters(links, filters) ==
    IF links = <<>> THEN <<>>
    ELSE LET effective_filters == IF filters = None THEN DEFAULT_GENERIC_FILTERS ELSE filters
             include_patterns == clean_patterns(effective_filters.include_patterns)
             exclude_patterns == clean_patterns(effective_filters.exclude_patterns)
             max_jobs == effective_filters.max_jobs
         IN  head_slice(filter_links(links, include_patterns, exclude_patterns, <<>>), max_jobs)

----------------------------------------------------------------------------
(* The spreadsheet round trip: DataFrame.to_excel, then                    *)
(* pd.read_excel(...).astype(str)                                          *)

\* cell texts the reader takes for missing values (keep_default_na)
NAValues == {<<>>, nan, <<"N", "a", "N">>, <<"N", "A">>, <<"n", "u", "l", "l">>}

IsNumericStr(s) == s # <<>> /\ \A i \in DOMAIN s : s[i] \in Digits

RECURSIVE IntStr(_)
\* str(int(s)) for a digit string: leading zeros go
IntStr(s) == IF Len(s) > 1 /\ Head(s) = "0" THEN IntStr(Tail(s)) ELSE s

\* the dtype the reader infers for column c: a column whose cells are all
\* missing or all numbers becomes numeric, any other stays text
ColKind(rows, c) ==
    LET cells == {rows[i][c] : i \in DOMAIN rows}
        given == cells \ NAValues
    IN  IF given = {} THEN "allna"
        ELSE IF \A v \in given : IsNumericStr(v)
             THEN (IF cells \cap NAValues # {} THEN "float" ELSE "int")
             ELSE "object"

\* one cell after read_excel(...).astype(str)
ReadCell(kind, v) ==
    IF v \in NAValues THEN nan
    ELSE IF kind = "float" THEN IntStr(v) \o <<".", "0">>
    ELSE IF kind = "int" THEN IntStr(v)
    ELSE v

read_excel(rows) ==
    LET cols == UNION {DOMAIN rows[i] : i \in DOMAIN rows}
        kind == [c \in cols |-> ColKind(rows, c)]
    IN  [i \in DOMAIN rows |->
            [c \in DOMAIN rows[i] |-> ReadCell(kind[c], rows[i][c])]]

----------------------------------------------------------------------------
(* Data frame operations used by the merge step *)

index(df) == [i \in DOMAIN df |-> df[i]["Job ID"]]

Labels(df) == {df[i]["Job ID"] : i \in DOMAIN df}

has_duplicates(df) ==
    \E i, j \in DOMAIN df : i < j /\ df[i]["Job ID"] = df[j]["Job ID"]

RECURSIVE Unique(_)
\* first occurrences, in order
Unique(s) ==
    IF s = <<>> THEN <<>>
    ELSE LET r == Unique(SubSeq(s, 1, Len(s) - 1))
         IN  IF \E k \in DOMAIN r : r[k] = s[Len(s)] THEN r
             ELSE Append(r, s[Len(s)])

\* existing_df.index.intersection(new_df.index): the common labels, once each
intersection(a, b) ==
    LET InB(x) == x \in Labels(b) IN SelectSeq(Unique(index(a)), InB)

RECURSIVE loc(_, _)
\* df.loc[ids]: for each label in turn, every row that carries it
loc(df, ids) ==
    IF ids = <<>> THEN <<>>
    ELSE LET Has(r) == r["Job ID"] = Head(ids)
         IN  SelectSeq(df, Has) \o loc(df, Tail(ids))

\* new_df[~new_df.index.isin(existing_df.index)]
not_isin(new_df, existing_df) ==
    LET Fresh(r) == r["Job ID"] \notin Labels(existing_df)
    IN  SelectSeq(new_df, Fresh)

\* the columns of `other` written over a row (no cell of `other` is NaN:
\* new_df went through astype(str), so '' overwrites too)
Overwrite(row, o) == [c \in DOMAIN row |-> IF c \in DOMAIN o THEN o[c] ELSE row[c]]

\* DataFrame.update reindexes `other` on self.index.  Reindexing a frame whose
\* labels repeat raises ValueError, unless both indexes are identical, where
\* reindex may return `other` as it is.
update_raises(self, other, strict) ==
    has_duplicates(other) /\ (index(other) # index(self) \/ strict)

update(self, other) ==
    IF has_duplicates(other)
    THEN [i \in DOMAIN self |-> Overwrite(self[i], other[i])]
    ELSE [i \in DOMAIN self |->
            IF self[i]["Job ID"] \in Labels(other)
            THEN Overwrite(self[i],
                    CHOOSE o \in {other[k] : k \in DOMAIN other} :
                        o["Job ID"] = self[i]["Job ID"])
            ELSE self[i]]

\* pd.concat([merged_df, added_df]).fillna(''), then the schema back-fill:
\* a column a row lacks is ''
concat_fillna(a, b) ==
    LET all == a \o b
        cols == UNION {DOMAIN all[i] : i \in DOMAIN all} \cup SchemaCols
    IN  [i \in DOMAIN all |->
            [c \in cols |-> IF c \in DOMAIN all[i] THEN all[i][c] ELSE <<>>]]

---------------------------------------------------------------------------------------------------------------------------------------------------
(* The merge step of run_multi_site_scraper *)

load_existing_no_fallback(file, read_fails) ==
    IF file = <<>> THEN <<>> ELSE read_excel(file)

\* the frame the run merges into: no file, or a read that raised, is empty
load_existing(file, read_fails) ==
    IF file = <<>> \/ read_fails THEN <<>> ELSE read_excel(file)

\* batch is not empty.  read_fails: pd.read_excel raised; strict: the
\* reindex of a repeated-label frame on an identical index raised.
merge_step(file, batch, read_fails, strict) ==
    LET new_df == batch
        existing_df == load_existing(file, read_fails)
        overlap_ids == intersection(existing_df, new_df)
        added_df == not_isin(new_df, existing_df)
        other == loc(new_df, overlap_ids)
    IN  IF existing_df = <<>>
        THEN [kind |-> "merged", batch |-> batch, before |-> file,
              read_failed |-> read_fails,
              merged |-> concat_fillna(new_df, <<>>),
              added |-> Len(new_df), updated |-> 0]
        ELSE IF update_raises(existing_df, other, strict)
        THEN [kind |-> "raised", batch |-> batch, before |-> file,
              read_failed |-> read_fails]
        ELSE [kind |-> "merged", batch |-> batch, before |-> file,
              read_failed |-> read_fails,
              merged |-> concat_fillna(update(existing_df, other), added_df),
              added |-> Len(added_df), updated |-> Len(overlap_ids)]

\* whether the identical-index reindex is the one update() performs
StrictMatters(file, batch, read_fails) ==
    LET existing_df == load_existing(file, read_fails)
        other == loc(batch, intersection(existing_df, batch))
    IN  existing_df # <<>> /\ has_duplicates(other) /\ index(other) = index(existing_df)

----------------------------------------------------------------------------
(* The configured sites and what their pages can hold *)

L1 == <<"h", "/", "1">>
L2 == <<"h", "/", "2">>
L3 == <<"h", "/", "3">>

\* the built-in sites, and two generic sites of a sites file on one host
Sites ==
    << [name |-> <<"Amazon", " Jobs">>, type |-> "amazon", enabled |-> TRUE,
        url |-> <<"h", "t", "t", "p", ":", "/", "/", "a", "/", "s">>],
       [name |-> <<"P&G", " Careers">>, type |-> "pg_careers", enabled |-> TRUE,
        url |-> <<"h", "t", "t", "p", ":", "/", "/", "p", "/", "s">>],
       [name |-> <<"LinkedIn", " Jobs">>, type |-> "linkedin", enabled |-> FALSE,
        url |-> <<"h", "t", "t", "p", ":", "/", "/", "l", "/", "s">>],
       [name |-> <<"Acme", " Careers">>, type |-> "generic", enabled |-> TRUE,
        url |-> <<"h", "t", "t", "p", ":", "/", "/", "w", "w", "w", ".", "x", "/", "j", "o", "b",
            "s">>],
       [name |-> <<"Acme", " Search">>, type |-> "generic", enabled |-> TRUE,
        url |-> <<"h", "t", "t", "p", ":", "/", "/", "X", "/", "s", "e", "a", "r", "c", "h">>] >>

SiteIds == DOMAIN Sites

\* allowlists a run can be given
SiteFilters == {<<>>, <<"amazon", "generic">>}

InFilter(type, filter) == \E k \in DOMAIN filter : filter[k] = type

\* the check of 'enabled' alone
skipped_disabled_only(site, filter) == ~site.enabled

\* the site is passed over: disabled, or not in the allowlist given
skipped(site, filter) ==
    \/ ~site.enabled
    \/ (filter # <<>> /\ ~InFilter(site.type, filter))

site_job(site, link, title) ==
    CASE site.type = "amazon" -> amazon_job(link, title, <<>>, <<>>)
      [] site.type = "pg_careers" -> pg_job(link, title, <<>>, <<>>)
      [] site.type = "linkedin" -> linkedin_job(link, title, <<>>, <<>>, <<>>)
      [] OTHER -> generic_job(site.name, link, title, <<>>, <<>>)

\* records one site's extraction can emit: a complete one, one without a
\* title and one whose title is white space
EmitPool(site) ==
    { site_job(site, L1, <<"D">>), site_job(site, L2, <<>>),
      site_job(site, L3, <<" ">>) }

\* records one scrape returns
MaxJobs == 2

RECURSIVE SeqsUpTo(_, _)
SeqsUpTo(S, n) ==
    IF n = 0 THEN {<<>>}
    ELSE {<<>>} \cup {Append(s, x) : s \in SeqsUpTo(S, n - 1), x \in S}

\* one run of an extraction method: the records gathered, and whether an
\* exception hit the method outside its per-candidate handler; the method
\* then logs and returns what it has gathered, here nothing yet
\* candidate links the listing page of a generic site can hold: one with an
\* include hint, one with none
CandPool == { <<<<"h", "t", "t", "p", ":", "/", "/", "x", "/", "j", "o", "b", "/", "1">>>>,
    <<<<"h", "t", "t", "p", ":", "/", "/", "x", "/", "a">>>> }

Candidates(site) == IF site.type = "generic" THEN CandPool ELSE {<<>>}

ExtractOutcomes(site) ==
    {[jobs |-> js, err |-> FALSE, cands |-> c] :
        js \in SeqsUpTo(EmitPool(site), MaxJobs), c \in Candidates(site)}
        \cup {[jobs |-> <<>>, err |-> TRUE, cands |-> <<>>]}

----------------------------------------------------------------------------
(* The filter profile cache *)

\* {}: also what a missing cache file loads as
NoProfiles == <<>>

Put(d, k, v) == [x \in DOMAIN d \cup {k} |-> IF x = k THEN v ELSE d[x]]

\* a cache file that is missing, unreadable or not a dict loads as {}
load_filter_profiles(file, read_fails) == IF read_fails THEN NoProfiles ELSE file

\* the file after save_filter_profiles; a failed write is logged, not raised
save_filter_profiles(file, profiles, write_fails) ==
    IF write_fails THEN file ELSE profiles

\* the entries of a site dict the run touches; auto_analyze_filters is read
\* with default True, site_profile_key '' is not set yet
NewConfig ==
    [site_profile_key |-> <<>>, filters |-> None, auto_analyze_filters |-> TRUE,
     inferred_filters |-> None]

\* if site.get('type') == 'generic': ... before the scraper is made
site_setup(site, cfg, profiles) ==
    IF site.type # "generic" THEN cfg
    ELSE LET site_key == get_site_profile_key(site.url)
             keyed == [cfg EXCEPT !.site_profile_key = site_key]
         IN  IF cfg.filters = None /\ site_key \in DOMAIN profiles
             THEN [keyed EXCEPT !.filters = profiles[site_key]]
             ELSE IF cfg.filters = None
             THEN [keyed EXCEPT !.auto_analyze_filters = TRUE]
             ELSE keyed

\* extract_from_generic: filters = self.config.get('filters'), inferred from
\* the candidate links when there are none
choose_filters(cfg, cands) ==
    IF cfg.filters = None /\ cfg.auto_analyze_filters
    THEN LET filters == infer_generic_filters(cands)
         IN  [cfg EXCEPT !.filters = filters, !.inferred_filters = filters]
    ELSE cfg

\* after scrape() returned: the profile the run is to save for the site
profile_to_save(site, cfg) ==
    LET site_key == IF cfg.site_profile_key # <<>> THEN cfg.site_profile_key
                    ELSE get_site_profile_key(site.url)
    IN  IF site.type = "generic" /\ cfg.inferred_filters # None /\ site_key # <<>>
        THEN [key |-> site_key, filters |-> cfg.inferred_filters]
        ELSE None

\* cache files a run can find: none, one that an earlier run wrote for
\* another host, one with a profile for the host of the generic sites
OldProfile == infer_generic_filters(<<<<"h", "t", "t", "p", ":", "/", "/", "x", "/", "s", "e", "a",
    "r", "c", "h", "/", "1">>>>)

StoreOptions ==
    { NoProfiles,
      (<<"y">> :> DEFAULT_GENERIC_FILTERS),
      (<<"x">> :> OldProfile) @@ (<<"y">> :> DEFAULT_GENERIC_FILTERS) }

----------------------------------------------------------------------------
(* The browser session of one scraper *)

Resources == {"p", "browser", "context", "page"}

\* order of acquisition in start_browser, order of release in close_browser
AcqPos(x) == CASE x = "p" -> 1 [] x = "browser" -> 2 [] x = "context" -> 3 [] x = "page" -> 4

RelPos(x) == CASE x = "page" -> 1 [] x = "context" -> 2 [] x = "browser" -> 3 [] x = "p" -> 4

\* JobSiteScraper.__init__
no_browser == [x \in Resources |-> "none"]

\* start_browser whose first k calls returned (k = 4: all of them)
start_browser(k) == [x \in Resources |-> IF AcqPos(x) <= k THEN "open" ELSE "none"]

\* a teardown that closes nothing
close_browser_nothing(r, f) == r

\* close_browser: each handle that is set is closed in turn; f is the call
\* that raised (0: none), and the calls after it are not made
close_browser(r, f) ==
    [x \in Resources |->
        IF r[x] = "open" /\ (f = 0 \/ RelPos(x) < f) THEN "closed" ELSE r[x]]

----------------------------------------------------------------------------
(* Retry *)

\* @retry(max_attempts=3, delay=2.0) on scrape
ScrapeMaxAttempts == 3

\* @retry(max_attempts=2, delay=3.0) on the extraction methods
ExtractMaxAttempts == 2

\* a wrapper that makes one attempt more
retry_gives_up_late(n, max_attempts) == n = max_attempts + 1

\* the wrapper re-raises when the attempt that failed was the last
retry_gives_up(n, max_attempts) == n = max_attempts

\* whether a run of an extraction method raises: the body of every method is
\* inside try/except Exception, which logs and returns jobs_data
extract_raises(o) == FALSE

\* the extraction method called whatever the navigation did
extraction_runs_unguarded(navigated, again) ==
    IF again THEN ExtractMaxAttempts ELSE 1

\* runs of the extraction method in one scrape attempt: none when both
\* navigations raised (the else of the for raises RuntimeError), a second
\* one when the first raised
extraction_runs(navigated, again) ==
    IF ~navigated THEN 0
    ELSE IF again THEN ExtractMaxAttempts ELSE 1

\* self.page.goto(url, wait_until=wait_mode, timeout=20000) in a scrape
\* attempt, and whether it returned
goto(n, wait_mode, returned) ==
    [e |-> "goto", attempt |-> n, wait_until |-> wait_mode, ok |-> returned]

\* a batch that is assigned, not extended
extend_replaces(batch, valid_jobs) == valid_jobs

\* all_jobs.extend(valid_jobs)
extend(batch, valid_jobs) == batch \o valid_jobs

\* the loop without its break
navigate_no_break(n, nav1, nav2) ==
    <<goto(n, "networkidle", nav1), goto(n, "domcontentloaded", nav2)>>

\* for wait_mode in ("networkidle", "domcontentloaded"): goto, and break
\* when it returned.  nav1, nav2: whether the goto of each mode returns
navigate(n, nav1, nav2) ==
    IF nav1 THEN <<goto(n, "networkidle", TRUE)>>
    ELSE <<goto(n, "networkidle", FALSE), goto(n, "domcontentloaded", nav2)>>

----------------------------------------------------------------------------
(* The site loop of run_multi_site_scraper *)

LoopStart ==
    /\ idx = 1
    /\ pc = "pending"
    /\ res = no_browser
    /\ attempt = 0
    /\ navs = 0
    /\ sleeps = 0
    /\ extract_calls = 0
    /\ extract_errors = 0
    /\ jobs = <<>>
    /\ status = [k \in SiteIds |-> "pending"]
    /\ torn = [k \in SiteIds |-> FALSE]
    /\ contrib = [k \in SiteIds |-> <<>>]
    /\ events = <<>>
    /\ profiles_updated = FALSE
    /\ config = [k \in SiteIds |-> NewConfig]
    /\ applied = [k \in SiteIds |-> None]
    /\ call = [fn |-> "none"]

Init ==
    /\ output_file = <<>>
    /\ all_jobs = <<>>
    /\ phase = "scraping"
    /\ runs = 1
    /\ last = [kind |-> "none"]
    /\ prev = [kind |-> "none"]
    /\ site_filter \in SiteFilters
    /\ profile_store \in StoreOptions
    /\ store_before = profile_store
    /\ load_failed \in BOOLEAN
    /\ load_failed => profile_store # NoProfiles
    /\ filter_profiles = load_filter_profiles(profile_store, load_failed)
    /\ LoopStart

InLoop == phase = "scraping" /\ idx \in SiteIds

\* the site is disabled or filtered out: continue
SkipSite ==
    /\ InLoop
    /\ pc = "pending"
    /\ skipped(Sites[idx], site_filter)
    /\ status' = [status EXCEPT ![idx] = "skipped"]
    /\ idx' = idx + 1
    /\ events' = <<>>
    /\ UNCHANGED <<mvars, site_filter, pc, res, attempt, navs, sleeps,
                   extract_calls, extract_errors, jobs, torn, contrib, pvars,
                   call>>

\* the profile setup of a generic site, JobSiteScraper(site), then
\* start_browser: k of its four calls return; an exception goes to the
\* handler of the loop body and on to the finally
StartBrowser ==
    \E k \in 0..4 :
        /\ InLoop
        /\ pc = "pending"
        /\ ~skipped(Sites[idx], site_filter)
        /\ res' = start_browser(k)
        /\ attempt' = IF k = 4 THEN 1 ELSE 0
        /\ navs' = 0
        /\ sleeps' = 0
        /\ extract_calls' = 0
        /\ extract_errors' = 0
        /\ jobs' = <<>>
        /\ pc' = IF k = 4 THEN "scrape" ELSE "close"
        /\ status' = [status EXCEPT ![idx] = IF k = 4 THEN @ ELSE "failed"]
        /\ events' = <<[e |-> "start_browser", ok |-> k = 4]>>
        /\ config' = [config EXCEPT
                         ![idx] = site_setup(Sites[idx], @, filter_profiles)]
        /\ UNCHANGED <<mvars, site_filter, idx, torn, contrib, profile_store,
                       store_before, load_failed, filter_profiles,
                       profiles_updated, applied, call>>

\* one attempt of scrape() under its retry wrapper, and when it returns the
\* rest of the loop body: an inferred profile is noted for saving and the
\* valid jobs are added to all_jobs.
\* nav1, nav2: the goto with networkidle / domcontentloaded returned;
\* o1, o2: the first and the second run of the extraction method.
ScrapeAttempt ==
    /\ InLoop
    /\ pc = "scrape"
    /\ \E nav1 \in BOOLEAN :
       \E nav2 \in IF nav1 THEN {TRUE} ELSE BOOLEAN :
       \E o1 \in IF nav2 THEN ExtractOutcomes(Sites[idx])
                 ELSE {[jobs |-> <<>>, err |-> TRUE, cands |-> <<>>]} :
       \E o2 \in IF nav2 /\ extract_raises(o1) THEN ExtractOutcomes(Sites[idx])
                 ELSE {o1} :
        /\ LET navigated == nav1 \/ nav2
               again == navigated /\ extract_raises(o1)
               calls == extraction_runs(navigated, again)
               errors == IF ~navigated THEN 0
                         ELSE (IF o1.err THEN 1 ELSE 0)
                                  + (IF again /\ o2.err THEN 1 ELSE 0)
               final == IF again THEN o2 ELSE o1
               raised == ~navigated \/ (again /\ extract_raises(o2))
               valid_jobs == SelectSeq(final.jobs, validate_job_data)
               generic == Sites[idx].type = "generic"
               cfg == IF generic /\ ~final.err
                      THEN choose_filters(config[idx], final.cands)
                      ELSE config[idx]
               saved == profile_to_save(Sites[idx], cfg)
               retried == raised /\ ~retry_gives_up(attempt, ScrapeMaxAttempts)
           IN  /\ navs' = navs + (IF nav1 THEN 1 ELSE 2)
               /\ events' = events
                      \o navigate(attempt, nav1, nav2)
                      \o [k \in 1..calls |-> [e |-> "extract", attempt |-> attempt]]
                      \o (IF retried
                          THEN <<[e |-> "sleep", attempt |-> attempt]>>
                          ELSE <<>>)
               /\ extract_calls' = extract_calls + calls
               /\ extract_errors' = extract_errors + errors
               /\ IF raised /\ ~retry_gives_up(attempt, ScrapeMaxAttempts)
                  THEN /\ attempt' = attempt + 1
                       /\ sleeps' = sleeps + 1
                       /\ UNCHANGED <<pc, status, jobs, all_jobs, contrib,
                                      config, applied, filter_profiles,
                                      profiles_updated>>
                  ELSE IF raised
                  THEN /\ pc' = "close"
                       /\ status' = [status EXCEPT ![idx] = "failed"]
                       /\ UNCHANGED <<attempt, sleeps, jobs, all_jobs, contrib,
                                      config, applied, filter_profiles,
                                      profiles_updated>>
                  ELSE /\ pc' = "close"
                       /\ status' = [status EXCEPT ![idx] = "ok"]
                       /\ jobs' = final.jobs
                       /\ all_jobs' = extend(all_jobs, valid_jobs)
                       /\ contrib' = [contrib EXCEPT ![idx] = valid_jobs]
                       /\ config' = [config EXCEPT ![idx] = cfg]
                       /\ applied' = [applied EXCEPT
                                         ![idx] = IF generic /\ ~final.err
                                                  THEN cfg.filters ELSE @]
                       /\ filter_profiles' =
                              IF saved = None THEN filter_profiles
                              ELSE Put(filter_profiles, saved.key, saved.filters)
                       /\ profiles_updated' = (profiles_updated \/ saved # None)
                       /\ UNCHANGED <<attempt, sleeps>>
        /\ UNCHANGED <<output_file, phase, runs, last, prev, site_filter, idx,
                       res, torn, profile_store, store_before, load_failed, call>>

\* finally: close_browser.  A close call that raises leaves the finally with
\* the exception, which nothing in run_multi_site_scraper handles.  The
\* site's iteration is over either way: its counters start again and the
\* jobs it returned are not read again.
CloseBrowser ==
    \E f \in 0..4 :
        /\ InLoop
        /\ pc = "close"
        /\ f > 0 => \E x \in Resources : RelPos(x) = f /\ res[x] = "open"
        /\ res' = close_browser(res, f)
        /\ torn' = [torn EXCEPT ![idx] = TRUE]
        /\ events' = Append(events, [e |-> "close_browser", ok |-> f = 0])
        /\ IF f = 0
           THEN /\ idx' = idx + 1
                /\ pc' = "pending"
                /\ UNCHANGED phase
           ELSE /\ phase' = "aborted"
                /\ UNCHANGED <<idx, pc>>
        /\ attempt' = 0
        /\ navs' = 0
        /\ sleeps' = 0
        /\ extract_calls' = 0
        /\ extract_errors' = 0
        /\ jobs' = <<>>
        /\ UNCHANGED <<output_file, all_jobs, runs, last, prev, site_filter,
                       status, contrib, pvars, call>>

----------------------------------------------------------------------------
(* The end of a run *)

\* if profiles_updated: save_filter_profiles(filter_profiles)
SaveProfiles ==
    \E write_fails \in BOOLEAN :
        /\ write_fails => profiles_updated
        /\ profile_store' =
               IF profiles_updated
               THEN save_filter_profiles(profile_store, filter_profiles, write_fails)
               ELSE profile_store
        /\ UNCHANGED <<store_before, load_failed, filter_profiles,
                       profiles_updated, config, applied, call>>

\* if not all_jobs: return None (no table is read or written)
FinishNoJobs ==
    /\ phase = "scraping"
    /\ all_jobs = <<>>
    /\ SaveProfiles
    /\ phase' = "idle"
    /\ last' = [kind |-> "no_jobs"]
    /\ UNCHANGED <<output_file, all_jobs, runs, prev, svars>>

\* the merge step; the table is written unless update raised
FinishMerge ==
    \E read_fails \in BOOLEAN, strict \in BOOLEAN :
        /\ phase = "scraping"
        /\ all_jobs # <<>>
        /\ read_fails => output_file # <<>>
        /\ strict => StrictMatters(output_file, all_jobs, read_fails)
        /\ LET r == merge_step(output_file, all_jobs, read_fails, strict)
           IN  /\ last' = r
               /\ output_file' = IF r.kind = "raised" THEN output_file ELSE r.merged
        /\ SaveProfiles
        /\ phase' = "idle"
        /\ UNCHANGED <<all_jobs, runs, prev, svars>>

SiteLoopDone == idx \notin SiteIds /\ pc = "pending"

EndNoJobs == SiteLoopDone /\ FinishNoJobs

EndMerge == SiteLoopDone /\ FinishMerge

Next == SkipSite \/ StartBrowser \/ ScrapeAttempt \/ CloseBrowser \/ EndNoJobs \/ EndMerge

Spec == Init /\ [][Next]_vars

\* a run with --sites amazon,pg_careers and no profile cache file
TwoSiteInit ==
    /\ output_file = <<>>
    /\ all_jobs = <<>>
    /\ phase = "scraping"
    /\ runs = 1
    /\ last = [kind |-> "none"]
    /\ prev = [kind |-> "none"]
    /\ site_filter = <<"amazon", "pg_careers">>
    /\ profile_store = NoProfiles
    /\ store_before = profile_store
    /\ load_failed = FALSE
    /\ filter_profiles = load_filter_profiles(profile_store, load_failed)
    /\ LoopStart

\* every call of a browser primitive returns or raises, so the step the
\* loop stands at is taken
SpecFair == TwoSiteInit /\ [][Next]_vars /\ WF_vars(Next)

----------------------------------------------------------------------------
(* Runs one after another against one output file, the site loop reduced   *)
(* to the records it adds to all_jobs                                      *)

\* records one run collects, and runs against one output file
MaxBatch == 2

MaxRuns == 2

\* records the adapters can emit: two scrapes of one link with different
\* content, empty and numeric fields, a padded title
JobPool ==
    { amazon_job(L1, <<"D">>, <<"X">>, <<"3">>),
      amazon_job(L1, <<"E">>, <<>>, <<>>),
      amazon_job(L2, <<"D">>, <<>>, <<"5">>),
      amazon_job(L3, <<" ", "E">>, <<"X">>, <<>>) }

MInit ==
    /\ output_file = <<>>
    /\ all_jobs = <<>>
    /\ phase = "idle"
    /\ runs = 0
    /\ last = [kind |-> "none"]
    /\ prev = [kind |-> "none"]
    /\ site_filter = <<>>
    /\ profile_store = NoProfiles
    /\ store_before = NoProfiles
    /\ load_failed = FALSE
    /\ filter_profiles = NoProfiles
    /\ LoopStart

\* run_multi_site_scraper is called: all_jobs = []
StartRun ==
    /\ phase = "idle"
    /\ runs < MaxRuns
    /\ runs' = runs + 1
    /\ phase' = "scraping"
    /\ all_jobs' = <<>>
    /\ prev' = IF last.kind = "merged" /\ last.before = <<>>
               THEN last ELSE [kind |-> "none"]
    /\ last' = [kind |-> "none"]
    /\ UNCHANGED <<output_file, svars, pvars, call>>

\* a site's scrape returned record r: all_jobs.extend(valid_jobs)
Collect ==
    \E r \in JobPool :
        /\ phase = "scraping"
        /\ Len(all_jobs) < MaxBatch
        /\ all_jobs' = all_jobs \o SelectSeq(<<r>>, validate_job_data)
        /\ UNCHANGED <<output_file, phase, runs, last, prev, svars, pvars, call>>

MNext == StartRun \/ Collect \/ FinishNoJobs \/ FinishMerge

SpecMerge == MInit /\ [][MNext]_vars

----------------------------------------------------------------------------
(* Properties of the merge step *)

Finished == last.kind \in {"merged", "raised"}

RowsOf(df) == {df[i] : i \in DOMAIN df}

WithId(df, id) == {r \in RowsOf(df) : r["Job ID"] = id}

SameFields(r, q) == \A c \in SchemaCols : r[c] = q[c]

\* C1: merging a batch into no table and then the same batch into the result
\* adds nothing, updates every id of the batch and leaves the table as the
\* first merge made it.
C1_IdempotentMerge ==
    (/\ prev.kind = "merged"
     /\ prev.before = <<>>
     /\ Finished
     /\ ~last.read_failed
     /\ last.batch = prev.batch)
    => (/\ last.kind = "merged"
        /\ last.added = 0
        /\ last.updated = Cardinality(Labels(last.batch))
        /\ last.merged = prev.merged)

\* C2: into no table every record is added and none updated; otherwise the
\* updated count is the number of common ids, the added count the number of
\* ids only in the batch, and the merged ids are the union of both.
C2_MergeCounts ==
    (last.kind = "merged" /\ ~last.read_failed)
    => LET ex == Labels(last.before)
           inc == Labels(last.batch)
       IN  IF last.before = <<>>
           THEN last.added = Len(last.batch) /\ last.updated = 0
           ELSE /\ last.updated = Cardinality(ex \cap inc)
                /\ last.added = Cardinality(inc \ ex)
                /\ Labels(last.merged) = ex \cup inc

\* C3: a merged row whose id is in the batch carries the fields of a batch
\* record of that id; a merged row whose id is only in the persisted table
\* is a row of that table, no field changed.
C3_PerIdContent ==
    (last.kind = "merged" /\ ~last.read_failed)
    => \A r \in RowsOf(last.merged) :
          IF r["Job ID"] \in Labels(last.batch)
          THEN \E b \in WithId(last.batch, r["Job ID"]) : SameFields(r, b)
          ELSE \E e \in WithId(last.before, r["Job ID"]) : SameFields(r, e)

\* C4: no written table has two rows with one Job ID; of several batch
\* records with one id the last is the one kept, and it is counted once.
C4_KeyedById ==
    last.kind = "merged"
    => /\ ~has_duplicates(last.merged)
       /\ \A i \in DOMAIN last.batch :
             (\A j \in DOMAIN last.batch :
                 j > i => last.batch[j]["Job ID"] # last.batch[i]["Job ID"])
             => \E r \in RowsOf(last.merged) : SameFields(r, last.batch[i])
       /\ last.added + last.updated = Cardinality(Labels(last.batch))

\* C5: every id of the persisted table before a run is in the table the run
\* writes.
C5_NoRecordLost ==
    last.kind = "merged" => Labels(last.before) \subseteq Labels(output_file)

\* C6: a run whose read of the existing table raised goes on with an empty
\* existing frame: it writes and returns the batch as the table, counts every
\* record as added and none as updated.
C6_ReadFailureIsEmpty ==
    (Finished /\ last.read_failed)
    => /\ last.kind = "merged"
       /\ last.merged = last.batch
       /\ output_file = last.merged
       /\ last.added = Len(last.batch)
       /\ last.updated = 0

\* a read that failed on a table sharing an id with the batch
C6_Witness ==
    /\ last.kind = "merged"
    /\ last.read_failed
    /\ Labels(last.before) \cap Labels(last.batch) # {}
    /\ last.added = Len(last.batch)

----------------------------------------------------------------------------
(* Properties of the site loop *)

RunOver == phase \in {"idle", "aborted"}

Processed(k) == status[k] \in {"ok", "failed"}

RECURSIVE ConcatTo(_, _)
ConcatTo(f, n) == IF n = 0 THEN <<>> ELSE ConcatTo(f, n - 1) \o f[n]

Leaked == \E x \in Resources : res[x] = "open"

NonBlank(s) == \E i \in DOMAIN s : s[i] \notin Whitespace

Complete(job) == \A f \in {"Job ID", "Job Link", "Title"} : NonBlank(job[f])

\* C7: when a run is over in which some site failed entirely, the loop has
\* gone through every site and the batch holds the valid records of the
\* sites that did not fail.
C7_SiteIsolation ==
    (RunOver /\ \E k \in SiteIds : status[k] = "failed")
    => /\ phase = "idle"
       /\ \A j \in SiteIds : status[j] # "pending"
       /\ all_jobs = ConcatTo(contrib, Len(Sites))

\* C8: teardown has run for every site the loop has gone past without
\* skipping it, and after a teardown no handle that was acquired is still
\* open.
C8_FullTeardown ==
    /\ \A k \in SiteIds : (Processed(k) /\ (k < idx \/ RunOver)) => torn[k]
    /\ (pc = "pending" \/ RunOver) => ~Leaked

\* C9: a site is scraped at most 3 times and its extraction run at most 6
\* times; an extraction run that hit an exception is followed by a second
\* run in the same scrape attempt, and when that fails too the scrape
\* attempt fails.
C9_RetryLayers ==
    /\ attempt <= ScrapeMaxAttempts
    /\ extract_calls <= ScrapeMaxAttempts * ExtractMaxAttempts
    /\ extract_errors > 0 => extract_calls >= ExtractMaxAttempts
    /\ (pc = "close" /\ extract_errors = extract_calls /\ extract_calls > 0)
       => status[idx] = "failed"

\* C10: every record of the batch has a Job ID, a Job Link and a Title that
\* are not blank after trimming; a scrape that returned incomplete records
\* leaves its site successful, and the site adds exactly the complete
\* records it returned, in order.
C10_ValidationGate ==
    /\ \A i \in DOMAIN all_jobs : Complete(all_jobs[i])
    /\ Finished => last.batch = all_jobs
    /\ all_jobs = ConcatTo(contrib, Len(Sites))
    /\ (InLoop /\ pc = "close" /\ status[idx] = "ok")
       => contrib[idx] = SelectSeq(jobs, Complete)
    /\ (InLoop /\ pc = "close" /\ jobs # <<>>) => status[idx] = "ok"

\* the generic adapter returned a record with a white-space title and a
\* complete one, after an earlier site added records of its own
C10_Witness ==
    /\ InLoop
    /\ pc = "close"
    /\ Sites[idx].type = "generic"
    /\ status[idx] = "ok"
    /\ Len(jobs) = 2
    /\ ~NonBlank(jobs[1]["Title"]) /\ jobs[1]["Title"] # <<>>
    /\ Complete(jobs[2])
    /\ contrib[idx] = <<jobs[2]>>
    /\ Len(all_jobs) > 1

----------------------------------------------------------------------------
(* Identity *)

IdOfLink(r) == r["Job ID"] = compute_job_id(r["Job Link"])

\* C11: every record an adapter emits and every row of the batch, of the
\* written table and of the table as the next run reads it has
\* Job ID = compute_job_id(Job Link), the link being the absolute one the
\* record stores; rows with one link have one id.
C11_IdentityInvariant ==
    /\ \A k \in SiteIds : \A r \in EmitPool(Sites[k]) : IdOfLink(r)
    /\ \A href \in {<<"/", "1">>, L1} :
          LET r == amazon_emit(href, <<"D">>, <<>>, <<>>)
          IN  IdOfLink(r) /\ r["Job Link"] = L1
    /\ \A r \in RowsOf(all_jobs) \cup RowsOf(output_file)
                    \cup RowsOf(read_excel(output_file)) : IdOfLink(r)
    /\ \A r, q \in RowsOf(all_jobs) \cup RowsOf(read_excel(output_file)) :
          r["Job Link"] = q["Job Link"] => r["Job ID"] = q["Job ID"]

\* a run updated a row of an earlier run with a record of the same link and
\* another title, and added a row
C11_Witness ==
    /\ last.kind = "merged"
    /\ last.updated > 0
    /\ last.added > 0
    /\ \E r \in RowsOf(last.batch), q \in RowsOf(last.before) :
          r["Job Link"] = q["Job Link"] /\ r["Title"] # q["Title"]

----------------------------------------------------------------------------
(* Properties of the filter profile cache *)

KeyOf(k) == get_site_profile_key(Sites[k].url)

\* the extraction of generic site k got as far as its filters
GenericDone(k) == Sites[k].type = "generic" /\ applied[k] # None

InferredEarlier(k) ==
    {j \in SiteIds : /\ j < k
                     /\ Sites[j].type = "generic"
                     /\ KeyOf(j) = KeyOf(k)
                     /\ config[j].inferred_filters # None}

Persisted(key, profile) ==
    key \in DOMAIN profile_store /\ profile_store[key] = profile

\* C12: a generic site whose host key has a profile in the cache file of
\* the run's start, or got one from an earlier site of the run, applies that
\* profile, infers none, and the profile is the store's entry after the run;
\* a generic site with no cached profile infers one, applies it, and it is
\* the store's entry after the run.
C12_ProfileCaching ==
    \A k \in SiteIds :
        GenericDone(k) =>
            IF KeyOf(k) \in DOMAIN store_before
            THEN /\ applied[k] = store_before[KeyOf(k)]
                 /\ config[k].inferred_filters = None
                 /\ RunOver => Persisted(KeyOf(k), store_before[KeyOf(k)])
            ELSE IF InferredEarlier(k) # {}
            THEN /\ \E j \in InferredEarlier(k) :
                        applied[k] = config[j].inferred_filters
                 /\ config[k].inferred_filters = None
                 /\ RunOver => Persisted(KeyOf(k), applied[k])
            ELSE /\ config[k].inferred_filters # None
                 /\ applied[k] = config[k].inferred_filters
                 /\ RunOver => Persisted(KeyOf(k), config[k].inferred_filters)

\* C13: every host key of the cache file of the run's start is a key of the
\* cache file at every later point of the run.
C13_StoreOnlyGrows == DOMAIN store_before \subseteq DOMAIN profile_store

----------------------------------------------------------------------------
(* Calls of the helper functions, each on arguments of its own *)

\* links a call is given
MaxLinks == 2

\* a job page, an excluded page, the root, the bare listing path, a job page
\* in upper case with a query, an applicant-tracking host
LinkPool ==
    { <<"h", "t", "t", "p", ":", "/", "/", "x", "/", "j", "o", "b", "/", "1">>, <<"h", "t", "t",
        "p", ":", "/", "/", "x", "/", "a", "b", "o", "u", "t">>, <<"h", "t", "t", "p", ":", "/",
        "/", "x", "/">>, <<"h", "t", "t", "p", ":", "/", "/", "x", "/", "j", "o", "b", "s">>,
      <<"h", "t", "t", "p", ":", "/", "/", "x", "/", "J", "o", "b", "/", "2", "?", "a">>, <<"h",
          "t", "t", "p", ":", "/", "/", "g", "r", "e", "e", "n", "h", "o", "u", "s", "e", ".", "i",
          "o", "/", "a">> }

FilterPool ==
    {None} \cup
    { [include_patterns |-> inc, exclude_patterns |-> exc,
       title_must_contain |-> <<>>, max_jobs |-> m] :
        inc \in {<<>>, <<<<"/", "j", "o", "b">>>>, <<<<"/", "J", "O", "B">>, <<"g", "r", "e", "e",
            "n", "h", "o", "u", "s", "e">>>>},
        exc \in {<<>>, <<<<"/", "a", "b", "o", "u", "t">>>>},
        m \in {1, 20} }

NoCallYet == call.fn = "none"

CallInfer ==
    \E links \in SeqsUpTo(LinkPool, MaxLinks) :
        /\ NoCallYet
        /\ call' = [fn |-> "infer_generic_filters", links |-> links,
                    result |-> infer_generic_filters(links)]
        /\ UNCHANGED <<mvars, svars, pvars>>

CallApply ==
    \E links \in SeqsUpTo(LinkPool, MaxLinks), filters \in FilterPool :
        /\ NoCallYet
        /\ call' = [fn |-> "apply_generic_filters", links |-> links,
                    filters |-> filters,
                    result |-> apply_generic_filters(links, filters)]
        /\ UNCHANGED <<mvars, svars, pvars>>


----------------------------------------------------------------------------
(* Properties of the link filters *)

Effective(filters) == IF filters = None THEN DEFAULT_GENERIC_FILTERS ELSE filters

MatchesAny(link, patterns) ==
    \E i \in DOMAIN patterns : contains(lower(link), lower(patterns[i]))

BarePath(link) == lower(strip(path(link))) \in {<<>>, <<"/">>, <<"/", "c", "a", "r", "e", "e", "r",
    "s">>, <<"/", "j", "o", "b", "s">>}

Keep(link, filters) ==
    /\ filters.include_patterns = <<>> \/ MatchesAny(link, filters.include_patterns)
    /\ ~MatchesAny(link, filters.exclude_patterns)
    /\ ~BarePath(link)

FirstAt(s, x) == CHOOSE i \in DOMAIN s : s[i] = x /\ \A j \in 1..(i - 1) : s[j] # x

\* C14: the result of apply_generic_filters holds only links of the input
\* that pass the include, exclude and bare-path tests, each once, in input
\* order, at most max_jobs of them, and a link that passes is left out only
\* behind max_jobs earlier ones.
C14_ApplyFilters ==
    /\ apply_generic_filters(<<<<"x", ".", "c", "o", "m", "/", "j", "o", "b", "/", "1", "2", "3">>,
        <<"x", ".", "c", "o", "m", "/", "a", "b", "o", "u", "t">>, <<"x", ".", "c", "o", "m",
        "/">>>>,
           [include_patterns |-> <<<<"/", "j", "o", "b">>>>, exclude_patterns |-> <<<<"/", "a",
               "b", "o", "u", "t">>>>,
            title_must_contain |-> <<>>, max_jobs |-> 20])
         = <<<<"x", ".", "c", "o", "m", "/", "j", "o", "b", "/", "1", "2", "3">>>>
    /\ call.fn = "apply_generic_filters" =>
          LET links == call.links
              f == Effective(call.filters)
              R == call.result
          IN  /\ \A i \in DOMAIN R : In(R[i], links) /\ Keep(R[i], f)
              /\ \A i, j \in DOMAIN R : i # j => R[i] # R[j]
              /\ Len(R) <= f.max_jobs
              /\ \A i, j \in DOMAIN R : i < j => FirstAt(links, R[i]) < FirstAt(links, R[j])
              /\ \A n \in DOMAIN links :
                    (Keep(links[n], f) /\ ~In(links[n], R))
                    => /\ Len(R) = f.max_jobs
                       /\ \A i \in DOMAIN R : FirstAt(links, R[i]) < n

\* a link of the bare listing path that matches an include pattern is
\* dropped and the job link after it is kept
C14_Witness ==
    /\ call.fn = "apply_generic_filters"
    /\ call.filters # None
    /\ Len(call.links) = 2
    /\ BarePath(call.links[1])
    /\ call.filters.include_patterns # <<>>
    /\ MatchesAny(call.links[1], call.filters.include_patterns)
    /\ call.result = <<call.links[2]>>

HintAt(p) == CHOOSE n \in DOMAIN include_hints : include_hints[n] = p

\* C15: the include patterns infer_generic_filters returns are the hints
\* that occur in a candidate link, lower-cased, each once and in hint order,
\* or the default include list when no hint occurs; they are never empty;
\* the exclude patterns are the default blocklist and max_jobs is 20.
C15_InferFilters ==
    call.fn = "infer_generic_filters" =>
        LET links == call.links
            R == call.result
            occurs(h) == \E i \in DOMAIN links : contains(lower(links[i]), h)
            hits == {n \in DOMAIN include_hints : occurs(include_hints[n])}
            inc == R.include_patterns
        IN  /\ inc # <<>>
            /\ hits = {} => inc = DEFAULT_GENERIC_FILTERS.include_patterns
            /\ hits # {} =>
                  /\ Len(inc) = Cardinality(hits)
                  /\ \A i \in DOMAIN inc : \E n \in hits : inc[i] = include_hints[n]
                  /\ \A i, j \in DOMAIN inc : i < j => HintAt(inc[i]) < HintAt(inc[j])
            /\ R.exclude_patterns = DEFAULT_GENERIC_FILTERS.exclude_patterns
            /\ R.exclude_patterns = <<<<"/", "a", "b", "o", "u", "t">>, <<"/", "b", "l", "o",
                "g">>, <<"/", "n", "e", "w", "s">>, <<"/", "e", "v", "e", "n", "t">>, <<"/", "p",
                "r", "i", "v", "a", "c", "y">>, <<"/", "t", "e", "r", "m", "s">>, <<"/", "c", "o",
                "n", "t", "a", "c", "t">>, <<"/", "i", "n", "v", "e", "s", "t", "o", "r">>>>
            /\ R.max_jobs = 20

\* two hints occur, in the links in the other order than in the hint list,
\* one of them in upper case
C15_Witness ==
    /\ call.fn = "infer_generic_filters"
    /\ call.links = <<<<"h", "t", "t", "p", ":", "/", "/", "g", "r", "e", "e", "n", "h", "o", "u",
        "s", "e", ".", "i", "o", "/", "a">>, <<"h", "t", "t", "p", ":", "/", "/", "x", "/", "J",
        "o", "b", "/", "2", "?", "a">>>>
    /\ call.result.include_patterns = <<<<"/", "j", "o", "b", "/">>, <<"g", "r", "e", "e", "n",
        "h", "o", "u", "s", "e", ".", "i", "o">>>>

----------------------------------------------------------------------------
(* Regular expressions, as sets of positions.  A position is the index of
   the next character to read, 1..Len(s) + 1; each operator maps the set of
   positions where a part of a pattern may begin to the set where it may
   end.  *)

At(s, p, w) == p + Len(w) - 1 <= Len(s) /\ SubSeq(s, p, p + Len(w) - 1) = w

\* a literal
Lit(s, P, w) == {p + Len(w) : p \in {q \in P : At(s, q, w)}}

\* (?:w1|w2|...)
Alt(s, P, W) == UNION {Lit(s, P, w) : w \in W}

\* x? for a literal x
Opt(s, P, w) ==
    UNION {{p} \cup (IF At(s, p, w) THEN {p + Len(w)} ELSE {}) : p \in P}

\* \s*
Ws0(s, P) ==
    UNION {{q \in p..(Len(s) + 1) :
               \A k \in p..(q - 1) : s[k] \in Whitespace} : p \in P}

\* \s+
Ws1(s, P) ==
    UNION {{q \in (p + 1)..(Len(s) + 1) :
               \A k \in p..(q - 1) : s[k] \in Whitespace} : p \in P}

\* (?:w\s*)?
OptWord(s, P, w) ==
    UNION {{p} \cup Ws0(s, IF At(s, p, w) THEN {p + Len(w)} ELSE {}) : p \in P}

\* n characters of \d at p
IsDigits(s, p, n) ==
    p + n - 1 <= Len(s) /\ \A k \in p..(p + n - 1) : s[k] \in Digits

\* \d{1,2}
Digits12(s, P) ==
    UNION {{p + n : n \in {m \in {1, 2} : IsDigits(s, p, m)}} : p \in P}

Max(S) == CHOOSE x \in S : \A y \in S : y <= x

Min(S) == CHOOSE x \in S : \A y \in S : x <= y

DigitChars == <<"0", "1", "2", "3", "4", "5", "6", "7", "8", "9">>

DigitVal(c) == (CHOOSE i \in DOMAIN DigitChars : DigitChars[i] = c) - 1

RECURSIVE int(_)
\* int(s) for a string of digits
int(s) ==
    IF s = <<>> THEN 0
    ELSE 10 * int(SubSeq(s, 1, Len(s) - 1)) + DigitVal(s[Len(s)])

----------------------------------------------------------------------------
(* extract_years_of_experience *)

\* the en dash, one character of the text
ndash == "ndash"

\* re.sub(r'\s+', ' ', s): every run of whitespace becomes one space
\* the one element of a set; binding a value as the one member of a set has
\* it computed once
TheOne(S) == CHOOSE x \in S : TRUE

\* two normalised halves, put together: the run of whitespace that the cut
\* went through is one space
glue(a, b) ==
    IF a # <<>> /\ b # <<>> /\ a[Len(a)] = " " /\ b[1] = " " THEN a \o Tail(b)
    ELSE a \o b

RECURSIVE normalize_ws(_)
normalize_ws(s) ==
    IF s = <<>> THEN <<>>
    ELSE IF Len(s) = 1 THEN (IF s[1] \in Whitespace THEN <<" ">> ELSE s)
    ELSE TheOne({glue(a, b) :
                    a \in {normalize_ws(SubSeq(s, 1, Len(s) \div 2))},
                    b \in {normalize_ws(SubSeq(s, (Len(s) \div 2) + 1, Len(s)))}})

\* \s*\+?\s*
plus_gap(s, P) == Ws0(s, Opt(s, Ws0(s, P), <<"+">>))

\* <unit>s?\s*(?:of\s*)?(?:relevant\s*)?(?:professional\s*)?(?:work\s*)?
\* (?:experience|exp)
unit_tail(s, P, unit) ==
    Alt(s,
        OptWord(s,
            OptWord(s,
                OptWord(s,
                    OptWord(s, Ws0(s, Opt(s, Lit(s, P, unit), <<"s">>)),
                        <<"o", "f">>),
                    <<"r", "e", "l", "e", "v", "a", "n", "t">>),
                <<"p", "r", "o", "f", "e", "s", "s", "i", "o", "n", "a",
                    "l">>),
            <<"w", "o", "r", "k">>),
        {<<"e", "x", "p", "e", "r", "i", "e", "n", "c", "e">>, <<"e", "x",
            "p">>})

\* the range pattern with a first group of n digits at i: where it may end
range_ends(s, i, n) ==
    IF ~IsDigits(s, i, n) THEN {}
    ELSE unit_tail(s,
             plus_gap(s,
                 Digits12(s,
                     Ws0(s, Alt(s, plus_gap(s, {i + n}),
                                {<<"t", "o">>, <<"-">>, <<ndash>>})))),
             <<"y", "e", "a", "r">>)

\* the three single_patterns with a group of n digits at d: where the match
\* may end
single_ends(k, s, d, n) ==
    IF ~IsDigits(s, d, n) THEN {}
    ELSE IF k = 3
    THEN Opt(s, Lit(s, plus_gap(s, {d + n}), <<"y", "e", "a", "r">>), <<"s">>)
    ELSE unit_tail(s, plus_gap(s, {d + n}),
                   IF k = 1 THEN <<"y", "e", "a", "r">> ELSE <<"y", "r">>)

\* where the group of single pattern k may begin when the match begins at i
group_starts(k, s, i) ==
    IF k = 1
    THEN Ws0(s, {i}
                \cup Lit(s, {i}, <<"m", "i", "n", "i", "m", "u", "m">>)
                \cup Lit(s, Ws1(s, Lit(s, {i}, <<"m", "i", "n", "i", "m",
                    "u", "m">>)), <<"o", "f">>)
                \cup Lit(s, Ws1(s, Lit(s, {i}, <<"a", "t">>)), <<"l", "e",
                    "a", "s", "t">>)
                \cup Lit(s, {i}, <<"o", "v", "e", "r">>)
                \cup Lit(s, Ws1(s, Lit(s, {i}, <<"m", "o", "r", "e">>)),
                    <<"t", "h", "a", "n">>))
    ELSE IF k = 2 THEN {i}
    ELSE OptWord(s, Ws0(s, Alt(s, {i}, {<<"e", "x", "p", "e", "r", "i", "e",
        "n", "c", "e">>, <<"e", "x", "p">>})), <<"o", "f">>)

\* of the ways a pattern matches, the one the engine takes: the match that
\* begins first, its prefix greedy, its group greedy (two digits before one)
preferred(ways) ==
    TheOne({w \in ways :
               \A v \in ways :
                   \/ w.start < v.start
                   \/ w.start = v.start /\ v.d < w.d
                   \/ w.start = v.start /\ v.d = w.d /\ v.n <= w.n})

\* the ways single pattern k matches from position `from` on
single_ways(k, s, from) ==
    {w \in UNION {{[start |-> i, d |-> d, n |-> n,
                    ends |-> single_ends(k, s, d, n)] :
                       d \in group_starts(k, s, i), n \in {1, 2}} :
                      i \in from..Len(s)} : w.ends # {}}

\* the ways the range pattern matches
range_ways(s) ==
    {w \in {[start |-> i, d |-> i, n |-> n, ends |-> range_ends(s, i, n)] :
                i \in 1..Len(s), n \in {1, 2}} : w.ends # {}}

\* the group of a match
group(s, w) == SubSeq(s, w.d, w.d + w.n - 1)

\* re.search of the range pattern: group(1) of the leftmost match; a group
\* has a digit, and the empty string stands for no match
range_match(s) ==
    TheOne({IF ways = {} THEN <<>> ELSE group(s, preferred(ways)) :
               ways \in {range_ways(s)}})

RECURSIVE first_valid(_, _, _)
\* for match in re.finditer(pattern k, s), from position `from`:
\* the first group whose value is in 1..40, or the empty string
first_valid(k, s, from) ==
    TheOne({IF ways = {} THEN <<>>
            ELSE TheOne({IF 0 < v /\ v <= 40 THEN group(s, preferred(ways))
                         ELSE first_valid(k, s, Max(preferred(ways).ends)) :
                            v \in {int(group(s, preferred(ways)))}}) :
               ways \in {single_ways(k, s, from)}})

\* the function on the normalised text
years_in(normalized) ==
    TheOne({IF g = <<>> THEN <<>> ELSE IntStr(g) :
               g \in {TheOne({IF r # <<>> THEN r
                              ELSE IF \A k \in 1..3 : vs[k] = <<>> THEN <<>>
                              ELSE vs[Min({k \in 1..3 : vs[k] # <<>>})] :
                                 r \in {range_match(normalized)},
                                 vs \in {[k \in 1..3 |->
                                           first_valid(k, normalized,
                                               1)]}})}})

extract_years_of_experience(text) ==
    IF text = <<>> THEN <<>>
    ELSE TheOne({years_in(normalized) :
                    normalized \in {normalize_ws(lower(text))}})

----------------------------------------------------------------------------
(* Calls of extract_years_of_experience on texts put together from phrases;
   a phrase carries the numbers it states *)

MaxPhrases == 2

PhrasePool ==
    { [text |-> <<"3", "-", "5", " ", "y", "e", "a", "r", "s", " ", "o", "f",
        " ", "e", "x", "p", "e", "r", "i", "e", "n", "c", "e">>,
        kind |-> "range", nums |-> <<3, 5>>],
      [text |-> <<"5", " ", "t", "o", " ", "3", " ", "y", "e", "a", "r", "s",
          " ", "e", "x", "p">>, kind |-> "range", nums |-> <<5, 3>>],
      [text |-> <<"0", "-", "2", " ", "Y", "e", "a", "r", "s", " ", "E", "x",
          "p", "e", "r", "i", "e", "n", "c", "e">>, kind |-> "range",
          nums |-> <<0, 2>>],
      [text |-> <<"4", "5", " ", ndash, " ", "5", "0", "+", " ", "y", "e",
          "a", "r", "s", " ", "o", "f", " ", "r", "e", "l", "e", "v", "a",
          "n", "t", " ", "w", "o", "r", "k", " ", "e", "x", "p", "e", "r",
          "i", "e", "n", "c", "e">>, kind |-> "range", nums |-> <<45, 50>>],
      [text |-> <<"4", "5", " ", "y", "e", "a", "r", "s", " ", "e", "x", "p",
          "e", "r", "i", "e", "n", "c", "e">>, kind |-> "single",
          nums |-> <<45>>],
      [text |-> <<"0", " ", "y", "e", "a", "r", "s", " ", "e", "x", "p", "e",
          "r", "i", "e", "n", "c", "e">>, kind |-> "single", nums |-> <<0>>],
      [text |-> <<"7", "+", " ", "y", "r", "s", " ", "e", "x", "p">>,
          kind |-> "single", nums |-> <<7>>],
      [text |-> <<"M", "i", "n", "i", "m", "u", "m", " ", "o", "f", " ", "2",
          "+", " ", "y", "e", "a", "r", "s", " ", "o", "f", " ", "p", "r",
          "o", "f", "e", "s", "s", "i", "o", "n", "a", "l", " ", "e", "x",
          "p", "e", "r", "i", "e", "n", "c", "e">>, kind |-> "single",
          nums |-> <<2>>],
      [text |-> <<"a", "t", " ", "l", "e", "a", "s", "t", " ", "1", "2",
          "\n", " ", "y", "e", "a", "r", "s", " ", " ", "o", "f", " ", "e",
          "x", "p", "e", "r", "i", "e", "n", "c", "e">>, kind |-> "single",
          nums |-> <<12>>],
      [text |-> <<"e", "x", "p", "e", "r", "i", "e", "n", "c", "e", " ", "o",
          "f", " ", "4", " ", "y", "e", "a", "r", "s">>, kind |-> "single",
          nums |-> <<4>>],
      [text |-> <<"t", "e", "a", "m", " ", "p", "l", "a", "y", "e", "r">>,
          kind |-> "none", nums |-> <<>>] }

RECURSIVE join_phrases(_)
\* ', '.join(p.text for p in ps)
join_phrases(ps) ==
    IF ps = <<>> THEN <<>>
    ELSE IF Len(ps) = 1 THEN ps[1].text
    ELSE ps[1].text \o <<",", " ">> \o join_phrases(Tail(ps))

CallYears ==
    \E ps \in SeqsUpTo(PhrasePool, MaxPhrases) :
        /\ NoCallYet
        /\ call' = [fn |-> "extract_years_of_experience", phrases |-> ps,
                    text |-> join_phrases(ps),
                    result |-> extract_years_of_experience(join_phrases(ps))]
        /\ UNCHANGED <<mvars, svars, pvars>>

----------------------------------------------------------------------------
(* Properties of extract_years_of_experience *)

YearsCall == call.fn = "extract_years_of_experience"

\* str(n) for n in 0..99
Dec(n) ==
    IF n < 10 THEN <<DigitChars[n + 1]>>
    ELSE <<DigitChars[(n \div 10) + 1], DigitChars[(n % 10) + 1]>>

IsRange(p) == p.kind = "range"

\* the first range phrase of the text is phrase i
FirstRange(ps, i) ==
    i \in DOMAIN ps /\ IsRange(ps[i]) /\ \A j \in 1..(i - 1) : ~IsRange(ps[j])

\* C18: on a text with an explicit range 'N to/-/en dash M years [of]
\* experience/exp' the result is the minimum of the two bounds as a
\* string, whatever single-value phrases stand before or after the range.
C18_RangeMinimum ==
    YearsCall =>
        \A i \in DOMAIN call.phrases :
            FirstRange(call.phrases, i) =>
                call.result = Dec(Min({call.phrases[i].nums[1],
                                       call.phrases[i].nums[2]}))

\* C19: the result is the empty string or the decimal string of an
\* integer v with 0 < v <= 40; it is never '0'.
C19_SanityWindow ==
    YearsCall =>
        \/ call.result = <<>>
        \/ /\ IsNumericStr(call.result)
           /\ call.result = IntStr(call.result)
           /\ 0 < int(call.result)
           /\ int(call.result) <= 40

----------------------------------------------------------------------------
(* extract_essential_keywords *)

tech_keywords == <<
    \* Programming languages
    <<"p", "y", "t", "h", "o", "n">>,
    <<"j", "a", "v", "a">>,
    <<"j", "a", "v", "a", "s", "c", "r", "i", "p", "t">>,
    <<"t", "y", "p", "e", "s", "c", "r", "i", "p", "t">>,
    <<"c", "\\", "+", "\\", "+">>,
    <<"c", "#">>,
    <<"r", "u", "b", "y">>,
    <<"g", "o">>,
    <<"r", "u", "s", "t">>,
    <<"p", "h", "p">>,
    <<"s", "w", "i", "f", "t">>,
    <<"k", "o", "t", "l", "i", "n">>,
    \* Frameworks/Libraries
    <<"r", "e", "a", "c", "t">>,
    <<"a", "n", "g", "u", "l", "a", "r">>,
    <<"v", "u", "e">>,
    <<"n", "o", "d", "e", "\\", ".", "?", "j", "s">>,
    <<"d", "j", "a", "n", "g", "o">>,
    <<"f", "l", "a", "s", "k">>,
    <<"s", "p", "r", "i", "n", "g">>,
    <<"e", "x", "p", "r", "e", "s", "s">>,
    <<"f", "a", "s", "t", "a", "p", "i">>,
    \* Databases
    <<"s", "q", "l">>,
    <<"m", "y", "s", "q", "l">>,
    <<"p", "o", "s", "t", "g", "r", "e", "s", "q", "l">>,
    <<"m", "o", "n", "g", "o", "d", "b">>,
    <<"r", "e", "d", "i", "s">>,
    <<"d", "y", "n", "a", "m", "o", "d", "b">>,
    <<"o", "r", "a", "c", "l", "e">>,
    <<"c", "a", "s", "s", "a", "n", "d", "r", "a">>,
    \* Cloud/DevOps
    <<"a", "w", "s">>,
    <<"a", "z", "u", "r", "e">>,
    <<"g", "c", "p">>,
    <<"d", "o", "c", "k", "e", "r">>,
    <<"k", "u", "b", "e", "r", "n", "e", "t", "e", "s">>,
    <<"j", "e", "n", "k", "i", "n", "s">>,
    <<"c", "i", "/", "c", "d">>,
    <<"t", "e", "r", "r", "a", "f", "o", "r", "m">>,
    <<"a", "n", "s", "i", "b", "l", "e">>,
    \* Data/AI/ML
    <<"m", "a", "c", "h", "i", "n", "e", " ", "l", "e", "a", "r", "n", "i",
        "n", "g">>,
    <<"d", "e", "e", "p", " ", "l", "e", "a", "r", "n", "i", "n", "g">>,
    <<"a", "i">>,
    <<"d", "a", "t", "a", " ", "s", "c", "i", "e", "n", "c", "e">>,
    <<"t", "e", "n", "s", "o", "r", "f", "l", "o", "w">>,
    <<"p", "y", "t", "o", "r", "c", "h">>,
    <<"p", "a", "n", "d", "a", "s">>,
    <<"n", "u", "m", "p", "y">>,
    \* Other skills
    <<"a", "g", "i", "l", "e">>,
    <<"s", "c", "r", "u", "m">>,
    <<"g", "i", "t">>,
    <<"r", "e", "s", "t", " ", "a", "p", "i">>,
    <<"g", "r", "a", "p", "h", "q", "l">>,
    <<"m", "i", "c", "r", "o", "s", "e", "r", "v", "i", "c", "e", "s">>,
    <<"l", "i", "n", "u", "x">>,
    <<"b", "a", "s", "h">> >>

WordChars ==
    {LowerCase[i] : i \in DOMAIN LowerCase} \cup
    {UpperCase[i] : i \in DOMAIN UpperCase} \cup Digits \cup {"_"}

\* \b at position p: a word character on exactly one side
boundary(s, p) ==
    (p - 1 \in DOMAIN s /\ s[p - 1] \in WordChars) #
    (p \in DOMAIN s /\ s[p] \in WordChars)

RECURSIVE literals(_)
\* the strings a keyword pattern matches: \x is the character x, x? is x or
\* nothing, any other character is itself
literals(pat) ==
    IF pat = <<>> THEN {<<>>}
    ELSE LET esc == Head(pat) = "\\" /\ Len(pat) >= 2
             atom == IF esc THEN pat[2] ELSE pat[1]
             rest == SubSeq(pat, IF esc THEN 3 ELSE 2, Len(pat))
             opt == rest # <<>> /\ Head(rest) = "?"
             tails == literals(IF opt THEN Tail(rest) ELSE rest)
         IN  {IF kept THEN <<atom>> \o r ELSE r :
                 r \in tails, kept \in (IF opt THEN BOOLEAN ELSE {TRUE})}

\* re.search(r'\b' + keyword + r'\b', s): the position of the leftmost
\* match, Len(s) + 1 when there is none
keyword_search(keyword, s) ==
    LET hits == UNION {{i \in 1..Len(s) :
                           /\ boundary(s, i)
                           /\ At(s, i, w)
                           /\ boundary(s, i + Len(w))} : w \in literals(keyword)}
    IN  IF hits = {} THEN Len(s) + 1 ELSE Min(hits)

upper_char(c) ==
    IF \E i \in DOMAIN LowerCase : LowerCase[i] = c
    THEN UpperCase[CHOOSE i \in DOMAIN LowerCase : LowerCase[i] = c]
    ELSE c

upper(s) == [i \in DOMAIN s |-> upper_char(s[i])]

IsLetter(c) == lower_char(c) # c \/ upper_char(c) # c

\* str.title(): a letter after a letter is lowered, any other is raised
str_title(s) ==
    [i \in DOMAIN s |->
        IF i > 1 /\ IsLetter(s[i - 1]) THEN lower_char(s[i])
        ELSE upper_char(s[i])]

clean_keyword(keyword) ==
    remove_all(remove_all(remove_all(keyword, <<"\\">>), <<".">>), <<"?">>)

canonical(keyword) ==
    IF Len(clean_keyword(keyword)) <= 4 THEN upper(clean_keyword(keyword))
    ELSE str_title(clean_keyword(keyword))

\* the members of a set of numbers, ascending
Ascending(S) ==
    [i \in 1..Cardinality(S) |->
        CHOOSE k \in S : Cardinality({j \in S : j <= k}) = i]

\* the loop over tech_keywords: the display forms of the keywords found,
\* in the order of the list
found_keywords(combined_text) ==
    TheOne({[i \in DOMAIN ks |-> canonical(tech_keywords[ks[i]])] :
               ks \in {Ascending({k \in DOMAIN tech_keywords :
                           keyword_search(tech_keywords[k], combined_text)
                               <= Len(combined_text)})}})

\* list(dict.fromkeys(xs)): of equal entries the first stays
unique(xs) ==
    TheOne({[i \in DOMAIN ks |-> xs[ks[i]]] :
               ks \in {Ascending({i \in DOMAIN xs :
                           \A j \in 1..(i - 1) : xs[j] # xs[i]})}})

RECURSIVE join(_, _)
\* sep.join(xs)
join(sep, xs) ==
    IF xs = <<>> THEN <<>>
    ELSE IF Len(xs) = 1 THEN xs[1]
    ELSE xs[1] \o sep \o join(sep, Tail(xs))

\* the same without the cut to 15 entries
extract_essential_keywords_no_cap(text, job_title) ==
    IF text = <<>> THEN <<>>
    ELSE TheOne({join(<<",", " ">>, unique(found)) :
                    found \in {found_keywords(combined_text) :
                        combined_text \in {lower(job_title \o <<" ">> \o text)}}})

extract_essential_keywords(text, job_title) ==
    IF text = <<>> THEN <<>>
    ELSE TheOne({join(<<",", " ">>, Trunc(unique(found), 15)) :
                    found \in {found_keywords(combined_text) :
                        combined_text \in {lower(job_title \o <<" ">> \o text)}}})

----------------------------------------------------------------------------
(* Calls of extract_essential_keywords on texts put together from fragments *)

MaxFragments == 2

FragmentPool ==
    { <<"L", "o", "o", "k", "i", "n", "g", " ", "f", "o", "r", " ", "a", " ",
        "P", "y", "t", "h", "o", "n", " ", "d", "e", "v", "e", "l", "o", "p",
        "e", "r", " ", "w", "i", "t", "h", " ", "A", "W", "S", " ", "a", "n",
        "d", " ", "D", "o", "c", "k", "e", "r", " ", "s", "k", "i", "l", "l",
        "s">>,
      <<"D", "o", "c", "k", "e", "r", " ", "a", "n", "d", " ", "P", "y", "t",
          "h", "o", "n">>,
      <<"p", "y", "t", "h", "o", "n", "i", "c", " ", "j", "a", "v", "a", "s",
          "c", "r", "i", "p", "t", "s">>,
      <<"C", "+", "+", " ", "a", "n", "d", " ", "C", "#", " ", "w", "i", "t",
          "h", " ", "n", "o", "d", "e", ".", "j", "s", ",", " ", "C", "I",
          "/", "C", "D">>,
      <<"p", "y", "t", "h", "o", "n", " ", "j", "a", "v", "a", " ", "j", "a",
          "v", "a", "s", "c", "r", "i", "p", "t", " ", "t", "y", "p", "e",
          "s", "c", "r", "i", "p", "t", " ", "r", "u", "b", "y", " ", "g",
          "o", " ", "r", "u", "s", "t", " ", "p", "h", "p", " ", "s", "w",
          "i", "f", "t", " ", "k", "o", "t", "l", "i", "n", " ", "r", "e",
          "a", "c", "t", " ", "a", "n", "g", "u", "l", "a", "r", " ", "v",
          "u", "e", " ", "d", "j", "a", "n", "g", "o", " ", "f", "l", "a",
          "s", "k", " ", "s", "p", "r", "i", "n", "g">>,
      <<"S", "Q", "L", ",", " ", "M", "y", "S", "Q", "L", " ", "a", "n", "d",
          " ", "s", "q", "l">>,
      <<"g", "r", "e", "a", "t", " ", "t", "e", "a", "m">> }

TitlePool ==
    { <<>>, <<"B", "a", "c", "k", "e", "n", "d", " ", "E", "n", "g", "i",
        "n", "e", "e", "r">>, <<"R", "u", "s", "t", " ", "E", "n", "g", "i",
        "n", "e", "e", "r">>, <<"A", "I", " ", "L", "e", "a", "d">> }

CallKeywords ==
    \E fs \in SeqsUpTo(FragmentPool, MaxFragments), job_title \in TitlePool :
        /\ NoCallYet
        /\ call' = [fn |-> "extract_essential_keywords",
                    text |-> join(<<".", " ">>, fs), title |-> job_title,
                    result |-> extract_essential_keywords(join(<<".", " ">>,
                        fs),
                                                          job_title)]
        /\ UNCHANGED <<mvars, svars, pvars>>

----------------------------------------------------------------------------
(* Properties of extract_essential_keywords *)

KeywordsCall == call.fn = "extract_essential_keywords"

RECURSIVE entries(_)
\* the entries of a ', '-joined list; the empty string has none
entries(s) ==
    IF s = <<>> THEN <<>>
    ELSE LET i == Find(s, <<",", " ">>, 1)
         IN  IF i > Len(s) THEN <<s>>
             ELSE <<SubSeq(s, 1, i - 1)>> \o entries(SubSeq(s, i + 2, Len(s)))

Combined == lower(call.title \o <<" ">> \o call.text)

\* the display forms of the vocabulary
Canonical == [k \in DOMAIN tech_keywords |-> canonical(tech_keywords[k])]

IsCanonical(e) == \E k \in DOMAIN Canonical : Canonical[k] = e

\* the vocabulary entry an entry of the result is the display form of
TermIndex(e) == CHOOSE k \in DOMAIN Canonical : Canonical[k] = e

Occurs(k, s) == keyword_search(tech_keywords[k], s) <= Len(s)

NoDuplicates(es) == \A i, j \in DOMAIN es : es[i] = es[j] => i = j

\* C20: the result holds canonical forms of vocabulary terms, no
\* duplicates, at most 15 entries, in the order in which the terms first
\* occur in the combined title-then-text string; a term that occurs in the
\* title is reported.
C20_FirstSeenOrder ==
    KeywordsCall =>
        LET es == entries(call.result)
            seen(e) == keyword_search(tech_keywords[TermIndex(e)], Combined)
        IN  /\ Len(es) <= 15
            /\ NoDuplicates(es)
            /\ \A i \in DOMAIN es : IsCanonical(es[i])
            /\ \A i, j \in DOMAIN es : i < j => seen(es[i]) < seen(es[j])
            /\ \A k \in DOMAIN tech_keywords :
                   (Occurs(k, lower(call.title)) /\ Len(es) < 15) =>
                       \E i \in DOMAIN es : es[i] = canonical(tech_keywords[k])

\* C20: as amended: the entries are in the order of the vocabulary list;
\* they are the first 15 of the terms that occur as whole words in the
\* combined string; an empty text gives '' whatever the title.
C20_VocabularyOrder ==
    KeywordsCall =>
        \A es \in {entries(call.result)} :
        \A occurring \in {{k \in DOMAIN tech_keywords : Occurs(k, Combined)}} :
            /\ call.text = <<>> => call.result = <<>>
            /\ Len(es) <= 15
            /\ NoDuplicates(es)
            /\ \A i \in DOMAIN es :
                   IsCanonical(es[i]) /\ TermIndex(es[i]) \in occurring
            /\ \A i, j \in DOMAIN es :
                   i < j => TermIndex(es[i]) < TermIndex(es[j])
            /\ call.text # <<>> =>
                   \A k \in occurring :
                       \/ \E i \in DOMAIN es : es[i] = Canonical[k]
                       \/ /\ Len(es) = 15
                          /\ \A i \in DOMAIN es : TermIndex(es[i]) < k

\* the text names Docker before Python and the result lists Python first;
\* the title term Rust is reported
C20_Witness ==
    /\ KeywordsCall
    /\ call.text = <<"D", "o", "c", "k", "e", "r", " ", "a", "n", "d", " ",
        "P", "y", "t", "h", "o", "n">>
    /\ call.title = <<"R", "u", "s", "t", " ", "E", "n", "g", "i", "n", "e",
        "e", "r">>
    /\ call.result = <<"P", "y", "t", "h", "o", "n", ",", " ", "R", "U", "S",
        "T", ",", " ", "D", "o", "c", "k", "e", "r">>

\* a text with 16 vocabulary terms is cut to 15 entries
C20_CapReached ==
    KeywordsCall /\ Len(entries(call.result)) = 15

----------------------------------------------------------------------------
(* The adapters on the pages of their candidates.  A page says what each
   call on it does: the element is there with a text, no element matches,
   or the call raises.  Of a record the adapters fill, the columns of
   job_dict are kept.  *)

Raises == [kind |-> "raises"]

Missing == [kind |-> "missing"]

Text(t) == [kind |-> "text", text |-> t]

\* query_selector(selector), then inner_text().strip(); any exception and
\* no element give the default ''
safe_extract(probe) ==
    IF probe.kind = "text" THEN strip(probe.text) ELSE <<>>

\* locator(...).first.text_content() in a try block: waiting for an element
\* that is not there raises too
guarded_text(probe) ==
    IF probe.kind = "text" THEN probe.text ELSE <<>>

\* ' '.join(s.split())
squeeze(s) == strip(normalize_ws(s))

\* the first heading, in the order of the list, found in the normalised
\* body text, and the window of text from it
section_in(normalized, headings) ==
    LET found == {h \in DOMAIN headings :
                     contains(lower(normalized), lower(headings[h]))}
        at == Find(lower(normalized), lower(headings[Min(found)]), 1)
    IN  IF found = {} THEN <<>>
        ELSE strip(SubSeq(normalized, at,
                          Min({Len(normalized), at + 1800 - 1})))

extract_section_from_body(page, headings) ==
    TheOne({section_in(normalized, headings) :
               normalized \in {squeeze(guarded_text(page.body))}})

\* years = f(primary); if not years: years = f(fallback)
years_with_fallback(primary, fallback) ==
    TheOne({IF y1 # <<>> THEN y1 ELSE extract_years_of_experience(fallback) :
               y1 \in {extract_years_of_experience(primary)}})

\* s.split(sep)[0]
before(s, sep) == SubSeq(s, 1, Find(s, sep, 1) - 1)

RECURSIVE rstrip_slash(_)
\* s.rstrip('/')
rstrip_slash(s) ==
    IF s # <<>> /\ s[Len(s)] = "/" THEN rstrip_slash(SubSeq(s, 1, Len(s) - 1))
    ELSE s

\* s.split('/')[-1]
last_segment(s) ==
    LET slashes == {i \in DOMAIN s : s[i] = "/"}
    IN  IF slashes = {} THEN s ELSE SubSeq(s, Max(slashes) + 1, Len(s))

\* the escapes urllib's unquote decodes, of which the model's links use
\* these
Escapes == { <<<<"%", "2", "0">>, " ">>, <<<<"%", "2", "6">>, "&">>, <<<<"%",
    "2", "B">>, "+">> }

RECURSIVE unquote(_)
unquote(s) ==
    IF s = <<>> THEN <<>>
    ELSE IF \E e \in Escapes : startswith(s, e[1])
    THEN LET esc == CHOOSE e \in Escapes : startswith(s, e[1])
         IN  <<esc[2]>> \o unquote(SubSeq(s, 4, Len(s)))
    ELSE <<Head(s)>> \o unquote(Tail(s))

\* the last path segment of the link as a title
slug_title(link) ==
    LET slug == unquote(last_segment(rstrip_slash(link)))
    IN  strip([i \in DOMAIN slug |-> IF slug[i] = "-" THEN " " ELSE slug[i]])

\* the description block of the Amazon and P&G adapters: the text after the
\* heading, the body text when that is empty; an exception leaves ''
heading_description(page) ==
    LET next_elem == IF page.description.kind = "text"
                     THEN strip(page.description.text) ELSE <<>>
    IN  IF page.description.kind # "text" THEN <<>>
        ELSE IF next_elem # <<>> THEN next_elem
        ELSE Trunc(guarded_text(page.body), 500)

\* the body of the per-candidate try block of each adapter: the record it
\* appends, or nothing when an exception leaves the block
amazon_candidate(page) ==
    LET link == IF startswith(page.link, <<"h", "t", "t",
        "p">>) THEN page.link
                ELSE <<"h", "t", "t", "p", "s", ":", "/", "/", "w", "w", "w",
                    ".", "a", "m", "a", "z", "o", "n", ".", "j", "o", "b",
                    "s">> \o page.link
        t1 == safe_extract(page.h1_title)
        job_title == IF t1 # <<>> THEN t1 ELSE safe_extract(page.h1)
        location == IF page.locations.kind = "text"
                    THEN strip(page.locations.text) ELSE <<>>
        min_req == strip(guarded_text(page.requirement))
        good_to_have == strip(guarded_text(page.preferred))
        job_description == heading_description(page)
        years == extract_years_of_experience(
                     min_req \o <<" ">> \o good_to_have \o <<" ">> \o job_description)
    IN  IF page.goto = "raises" \/ page.locations.kind = "raises" THEN <<>>
        ELSE <<amazon_job(link, job_title, location, years)>>

pg_headings ==
    << <<"j", "o", "b", " ", "q", "u", "a", "l", "i", "f", "i", "c", "a",
        "t", "i", "o", "n", "s">>, <<"q", "u", "a", "l", "i", "f", "i", "c",
        "a", "t", "i", "o", "n", "s">>, <<"m", "u", "s", "t", " ", "h", "a",
        "v", "e">>,
       <<"w", "h", "a", "t", " ", "w", "e", " ", "a", "r", "e", " ", "l",
           "o", "o", "k", "i", "n", "g", " ", "f", "o", "r">>, <<"r", "e",
           "q", "u", "i", "r", "e", "m", "e", "n", "t", "s">>, <<"m", "i",
           "n", "i", "m", "u", "m", " ", "q", "u", "a", "l", "i", "f", "i",
           "c", "a", "t", "i", "o", "n", "s">> >>

pg_candidate(page) ==
    LET link == IF startswith(page.link, <<"h", "t", "t",
        "p">>) THEN page.link
                ELSE <<"h", "t", "t", "p", "s", ":", "/", "/", "w", "w", "w",
                    ".", "p", "g", "c", "a", "r", "e", "e", "r", "s", ".",
                    "c", "o", "m">> \o page.link
        t1 == safe_extract(page.h1)
        t2 == IF t1 # <<>> THEN t1 ELSE safe_extract(page.class_title)
        \* eval_on_selector raises when no element matches
        og_raises == t2 = <<>> /\ page.og_title.kind # "text"
        t3 == IF t2 # <<>> THEN t2 ELSE guarded_text(page.og_title)
        title_raises == ~og_raises /\ t3 = <<>> /\ page.page_title.kind = "raises"
        t4 == IF t3 # <<>> THEN t3 ELSE guarded_text(page.page_title)
        t5 == strip(before(before(t4, <<"|">>), <<"-", " ", "P", "&", "G",
            " ", "C", "a", "r", "e", "e", "r", "s">>))
        job_title == IF t5 # <<>> THEN t5 ELSE slug_title(link)
        location == safe_extract(page.class_location)
        r1 == safe_extract(page.requirement)
        r2 == IF r1 # <<>> THEN r1 ELSE extract_section_from_body(page,
            pg_headings)
        min_req == IF r2 # <<>> THEN r2 ELSE Trunc(guarded_text(page.body),
            500)
        job_description == heading_description(page)
        years == years_with_fallback(min_req,
                                     min_req \o <<" ">> \o job_description)
    IN  IF page.goto = "raises" \/ og_raises \/ title_raises THEN <<>>
        ELSE <<pg_job(link, job_title, location, years)>>

linkedin_candidate(page) ==
    LET job_description == strip(guarded_text(page.description))
    IN  IF page.goto = "raises" THEN <<>>
        ELSE <<linkedin_job(page.link, safe_extract(page.h1_title),
                            safe_extract(page.company),
                            safe_extract(page.class_location),
                            extract_years_of_experience(job_description))>>

generic_headings ==
    << <<"m", "i", "n", "i", "m", "u", "m", " ", "q", "u", "a", "l", "i",
        "f", "i", "c", "a", "t", "i", "o", "n", "s">>, <<"b", "a", "s", "i",
        "c", " ", "q", "u", "a", "l", "i", "f", "i", "c", "a", "t", "i", "o",
        "n", "s">>, <<"r", "e", "q", "u", "i", "r", "e", "m", "e", "n", "t",
        "s">>,
       <<"m", "u", "s", "t", " ", "h", "a", "v", "e">>, <<"j", "o", "b", " ",
           "q", "u", "a", "l", "i", "f", "i", "c", "a", "t", "i", "o", "n",
           "s">> >>

generic_candidate(name, page) ==
    LET t1 == safe_extract(page.h1)
        title_raises == t1 = <<>> /\ page.page_title.kind = "raises"
        t2 == IF t1 # <<>> THEN t1
              ELSE strip(before(before(guarded_text(page.page_title),
                  <<"|">>), <<"-">>))
        job_title == IF t2 # <<>> THEN t2 ELSE slug_title(page.link)
        location == safe_extract(page.class_location)
        min_req == extract_section_from_body(page, generic_headings)
        job_description == Trunc(squeeze(guarded_text(page.body)), 800)
        years == years_with_fallback(min_req, job_description)
    IN  IF page.goto = "raises" \/ title_raises THEN <<>>
        ELSE <<generic_job(name, page.link, job_title, location, years)>>

Adapters == {"amazon", "pg_careers", "linkedin", "generic"}

generic_name == <<"Acme", " Careers">>

candidate(adapter, page) ==
    CASE adapter = "amazon" -> amazon_candidate(page)
      [] adapter = "pg_careers" -> pg_candidate(page)
      [] adapter = "linkedin" -> linkedin_candidate(page)
      [] OTHER -> generic_candidate(generic_name, page)

\* the candidates an adapter walks over: P&G keeps the links with '/job/'
\* and of them the first 15, LinkedIn the first 50
candidates_of(adapter, pages) ==
    LET IsJob(p) == contains(p.link, <<"/", "j", "o", "b", "/">>)
    IN  CASE adapter = "pg_careers" -> Trunc(SelectSeq(pages, IsJob), 15)
          [] adapter = "linkedin" -> Trunc(pages, 50)
          [] OTHER -> pages

RECURSIVE stop_at_failure(_, _)
\* a loop whose handler is around the loop, not in it
stop_at_failure(adapter, cands) ==
    IF cands = <<>> \/ candidate(adapter, Head(cands)) = <<>> THEN <<>>
    ELSE candidate(adapter, Head(cands)) \o stop_at_failure(adapter,
        Tail(cands))

RECURSIVE candidate_loop(_, _)
\* for idx, link in enumerate(...): try: ... jobs_data.append(...)
\*                                   except Exception: log
candidate_loop(adapter, cands) ==
    IF cands = <<>> THEN <<>>
    ELSE candidate(adapter, Head(cands)) \o candidate_loop(adapter,
        Tail(cands))

extract_jobs(adapter, pages) == candidate_loop(adapter,
    candidates_of(adapter, pages))

----------------------------------------------------------------------------
(* Calls of the adapters on bounded lists of candidate pages *)

MaxCands == 2

GoodPage ==
    [ link |-> <<>>, goto |-> "ok",
      h1_title |-> Text(<<"D", "e", "v">>), h1 |-> Text(<<" ", "S", "R", "E",
          " ">>),
      class_title |-> Text(<<"O", "p", "s">>), og_title |-> Text(<<"Q",
          "A">>),
      page_title |-> Text(<<"D", "a", "t", "a", " ", "E", "n", "g", " ", "|",
          " ", "A", "c", "m", "e", " ", "-", " ", "P", "&", "G", " ", "C",
          "a", "r", "e", "e", "r", "s">>),
      locations |-> Text(<<"P", "u", "n", "e">>),
          class_location |-> Text(<<"G", "o", "a">>),
      company |-> Text(<<"A", "c", "m", "e">>),
      requirement |-> Text(<<"5", "+", " ", "y", "e", "a", "r", "s", " ",
          "e", "x", "p", "e", "r", "i", "e", "n", "c", "e">>),
      preferred |-> Text(<<"a", "w", "s">>),
      description |-> Text(<<"2", " ", "y", "r", "s", " ", "e", "x", "p">>),
      body |-> Text(<<"H", "i", ".", " ", " ", "R", "e", "q", "u", "i", "r",
          "e", "m", "e", "n", "t", "s", ":", " ", "3", " ", "y", "e", "a",
          "r", "s", " ", "o", "f", " ", "e", "x", "p", "e", "r", "i", "e",
          "n", "c", "e">>) ]

NoHeading ==
    [GoodPage EXCEPT !.h1_title = Missing, !.h1 = Missing,
        !.class_title = Missing]

\* what the pages of the candidates do
PageKinds ==
    { GoodPage,
      [GoodPage EXCEPT !.goto = "raises"],
      [GoodPage EXCEPT !.h1_title = Missing, !.h1 = Raises,
                       !.requirement = Missing, !.description = Text(<<>>)],
      [NoHeading EXCEPT !.og_title = Missing],
      [NoHeading EXCEPT !.og_title = Raises, !.body = Raises],
      [NoHeading EXCEPT !.og_title = Text(<<>>)],
      [NoHeading EXCEPT !.og_title = Text(<<>>), !.page_title = Text(<<>>)],
      [NoHeading EXCEPT !.og_title = Text(<<>>), !.page_title = Raises],
      [GoodPage EXCEPT !.locations = Raises],
      [GoodPage EXCEPT !.locations = Missing, !.class_location = Missing,
                       !.company = Raises, !.requirement = Raises,
                       !.preferred = Raises, !.description = Raises,
                       !.body = Missing] }

RelativeLinks == { <<"/", "j", "o", "b", "/", "a", "-", "b">> }

AbsoluteLinks == { <<"h", "t", "t", "p", ":", "/", "/", "x", "/", "j", "o",
    "b", "/", "c", "%", "2", "0", "d", "/">>, <<"h", "t", "t", "p", ":", "/",
    "/", "x", "/", "j", "o", "b", "s", "/", "e">> }

\* Amazon and P&G read hrefs, which may be relative; LinkedIn and the
\* generic adapter only walk over absolute links
LinksOf(adapter) ==
    IF adapter \in {"amazon",
        "pg_careers"} THEN RelativeLinks \cup AbsoluteLinks
    ELSE AbsoluteLinks

PagePool(adapter) ==
    {[k EXCEPT !.link = l] : k \in PageKinds, l \in LinksOf(adapter)}

\* the candidate links of a page are distinct
DistinctLinks(pages) ==
    \A i, j \in DOMAIN pages : pages[i].link = pages[j].link => i = j

CallExtract ==
    \E adapter \in Adapters :
        \E pages \in {ps \in SeqsUpTo(PagePool(adapter), MaxCands) :
                         DistinctLinks(ps)} :
            /\ NoCallYet
            /\ call' = [fn |-> "extract", adapter |-> adapter,
                pages |-> pages,
                        result |-> extract_jobs(adapter, pages)]
            /\ UNCHANGED <<mvars, svars, pvars>>

----------------------------------------------------------------------------
(* Properties of the adapters' candidate loops *)

ExtractCall == call.fn = "extract"

Walked == candidates_of(call.adapter, call.pages)

Succeeds(page) == candidate(call.adapter, page) # <<>>

\* C16: an exception while candidate k is processed discards candidate k
\* alone: the adapter returns one record for each candidate processed
\* without an exception, the later ones included, in candidate order.
C16_FailureContained ==
    ExtractCall =>
        LET done == SelectSeq(Walked, Succeeds)
        IN  /\ Len(call.result) = Len(done)
            /\ \A i \in DOMAIN done :
                   <<call.result[i]>> = candidate(call.adapter, done[i])

\* the first candidate fails, the second is processed and returned
C16_Witness ==
    /\ ExtractCall
    /\ Len(Walked) = 2
    /\ ~Succeeds(Walked[1])
    /\ Succeeds(Walked[2])
    /\ Len(call.result) = 1

\* C17: a field whose selector or script call raises or finds nothing is
\* left empty or taken from the next fallback; the candidate is never
\* dropped for it: every candidate whose page was reached has its record.
C17_FieldDegradation ==
    ExtractCall =>
        Len(call.result) =
            Cardinality({k \in DOMAIN Walked : Walked[k].goto = "ok"})

----------------------------------------------------------------------------
(* expand_listing_links, and its use in extract_from_generic *)

listing_tokens == <<<<"/", "s", "e", "a", "r", "c", "h">>, <<"/", "j", "o",
    "b", "s">>, <<"/", "c", "a", "r", "e", "e", "r", "s">>, <<"/", "o", "p",
    "p", "o", "r", "t", "u", "n", "i", "t", "i", "e", "s">>>>

job_tokens ==
    <<<<"/", "j", "o", "b", "/">>, <<"/", "j", "o", "b", "s", "/", "v", "i",
        "e", "w", "/">>, <<"/", "p", "o", "s", "i", "t", "i", "o", "n",
        "/">>, <<"/", "r", "e", "q", "u", "i", "s", "i", "t", "i", "o", "n">>,
      <<"g", "r", "e", "e", "n", "h", "o", "u", "s", "e", ".", "i", "o">>,
          <<"l", "e", "v", "e", "r", ".", "c", "o">>>>

\* pages a call opens at most
MaxListingPages == 5

\* the links opened as listing pages: those with a listing token and
\* without '/job/', the first five
listing_links(links) ==
    LET is_listing(link) ==
            /\ any_in(listing_tokens, lower(link))
            /\ ~contains(lower(link), <<"/", "j", "o", "b", "/">>)
    IN  head_slice(SelectSeq(links, is_listing), MaxListingPages)

\* the anchors of an opened page that are kept
job_anchors(anchors) ==
    LET kept(anchor) ==
            /\ startswith(anchor, <<"h", "t", "t", "p">>)
            /\ any_in(job_tokens, lower(anchor))
    IN  SelectSeq(anchors, kept)

\* for listing_link in listing_links: the anchors kept are added once each;
\* a page whose goto or whose evaluation raised is passed over.
\* pages[k]: Raises, or the anchors of the k-th listing page
RECURSIVE expand_loop(_, _, _)
expand_loop(pages, k, expanded) ==
    IF k > Len(pages) THEN expanded
    ELSE IF pages[k] = Raises THEN expand_loop(pages, k + 1, expanded)
    ELSE expand_loop(pages, k + 1,
                     unique(expanded \o job_anchors(pages[k].anchors)))

\* pages: what the listing links opened give, in order
expand_listing_links(links, pages, max_jobs) ==
    IF links = <<>> THEN <<>>
    ELSE head_slice(expand_loop(pages, 1, <<>>), max_jobs)

\* scrape_links = expanded_links if expanded_links else filtered_links
scrape_links(expanded_links, filtered_links) ==
    IF expanded_links # <<>> THEN expanded_links ELSE filtered_links

\* candidate links of a careers site: search and listing pages, some of
\* them with the path or the host of a job page, and job pages
ExpandLinks ==
    <<<<"h", "t", "t", "p", ":", "/", "/", "x", "/", "s", "e", "a", "r", "c",
        "h", "?", "q", "=", "1">>, <<"h", "t", "t", "p", ":", "/", "/", "x",
        "/", "j", "o", "b", "s", "/", "v", "i", "e", "w", "/", "7">>, <<"h",
        "t", "t", "p", ":", "/", "/", "x", "/", "j", "o", "b", "/", "1">>,
      <<"h", "t", "t", "p", ":", "/", "/", "x", "/", "c", "a", "r", "e", "e",
          "r", "s", "/", "e", "n", "g">>, <<"h", "t", "t", "p", ":", "/",
          "/", "x", "/", "o", "p", "p", "o", "r", "t", "u", "n", "i", "t",
          "i", "e", "s">>,
      <<"h", "t", "t", "p", ":", "/", "/", "x", "/", "J", "o", "b", "s", "/",
          "a", "l", "l">>, <<"h", "t", "t", "p", ":", "/", "/", "x", "/",
          "s", "e", "a", "r", "c", "h", "/", "j", "o", "b", "/", "2">>,
      <<"h", "t", "t", "p", ":", "/", "/", "l", "e", "v", "e", "r", ".", "c",
          "o", "/", "j", "o", "b", "s", "/", "a">>>>

\* candidate links of one call
MaxExpandLinks == 7

Pick(s, S) == [i \in 1..Cardinality(S) |-> s[Ascending(S)[i]]]

\* anchors a listing page can hold
AnchorPool ==
    { <<<<"h", "t", "t", "p", ":", "/", "/", "x", "/", "j", "o", "b", "/",
        "9">>, <<"h", "t", "t", "p", ":", "/", "/", "x", "/", "a", "b", "o",
        "u", "t">>, <<"m", "a", "i", "l", "t", "o", ":", "a">>,
        <<"h", "t", "t", "p", ":", "/", "/", "x", "/", "P", "o", "s", "i",
            "t", "i", "o", "n", "/", "3">>>>,
      <<<<"h", "t", "t", "p", ":", "/", "/", "x", "/", "a", "b", "o", "u",
          "t">>>> }

\* filters of the site: no patterns, one job or twenty
ExpandFilters ==
    { [include_patterns |-> <<>>, exclude_patterns |-> <<>>,
       title_must_contain |-> <<>>, max_jobs |-> m] : m \in {1, 20} }

CallExpand ==
    \E S \in {T \in SUBSET DOMAIN ExpandLinks : Cardinality(T) <= MaxExpandLinks},
       filters \in ExpandFilters, anchors \in AnchorPool, failing \in 0..2 :
        /\ NoCallYet
        /\ \E filtered_links \in
                 {apply_generic_filters(Pick(ExpandLinks, S), filters)} :
           \E fetched \in {listing_links(filtered_links)} :
               /\ failing <= Len(fetched)
               /\ \E pages \in {[k \in DOMAIN fetched |->
                                   IF k = failing THEN Raises
                                   ELSE [anchors |-> anchors]]} :
                  \E expanded_links \in
                        {expand_listing_links(filtered_links, pages,
                                              filters.max_jobs)} :
                      call' = [fn |-> "expand_listing_links",
                               links |-> filtered_links,
                               max_jobs |-> filters.max_jobs,
                               fetched |-> fetched, pages |-> pages,
                               result |-> expanded_links,
                               scrape_links |->
                                   scrape_links(expanded_links,
                                       filtered_links)]
        /\ UNCHANGED <<mvars, svars, pvars>>

----------------------------------------------------------------------------
(* The command line: main() of src/main.py *)

\* save_linkedin_storage_state: False when a credential variable is not set
\* or anything of the login raised, True once the session file is written
save_linkedin_storage_state(env_set, login_raises) == env_set /\ ~login_raises

\* export_sites_from_pdf: 0 when the PDF gave no url (a PDF that cannot be
\* read gives none); else the sites are written and counted; a failed write
\* is not handled
export_sites_from_pdf(urls, write_raises) ==
    IF urls = <<>> THEN [kind |-> "returned", count |-> 0]
    ELSE IF write_raises THEN Raises
    ELSE [kind |-> "returned", count |-> Len(urls)]

\* what run_multi_site_scraper gives back to main
RunResults == {"None", "df", "raises"}

\* the exit status of the process: 0 when main returns, 1 after sys.exit(1)
\* and after an exception that nothing caught
main(args, env) ==
    IF args.save_linkedin
    THEN 0
    ELSE IF args.extract_sites_pdf
    THEN LET count == export_sites_from_pdf(env.urls, env.write_raises)
         IN  IF count = Raises THEN 1
             ELSE IF count.count > 0 THEN 0 ELSE 1
    ELSE IF env.df = "df" THEN 0 ELSE 1

\* whether the invocation left something a user can use: a saved session,
\* a sites file, a table
usable_output(args, env) ==
    IF args.save_linkedin
    THEN save_linkedin_storage_state(env.env_set, env.login_raises)
    ELSE IF args.extract_sites_pdf
    THEN LET count == export_sites_from_pdf(env.urls, env.write_raises)
         IN  count # Raises /\ count.count > 0
    ELSE env.df = "df"

CallMain ==
    \E save_linkedin \in BOOLEAN, extract_sites_pdf \in BOOLEAN,
       env_set \in BOOLEAN, login_raises \in BOOLEAN,
       urls \in {<<>>, <<L1>>, <<L1, L2>>}, write_raises \in BOOLEAN,
       df \in RunResults :
        /\ NoCallYet
        /\ LET args == [save_linkedin |-> save_linkedin,
                        extract_sites_pdf |-> extract_sites_pdf]
               env == [env_set |-> env_set, login_raises |-> login_raises,
                       urls |-> urls, write_raises |-> write_raises, df |-> df]
           IN  call' = [fn |-> "main", args |-> args, env |-> env,
                        usable |-> usable_output(args, env),
                        exit |-> main(args, env)]
        /\ UNCHANGED <<mvars, svars, pvars>>

----------------------------------------------------------------------------
(* The remote upsert: upsert_jobs_to_supabase *)

\* batch_size = 50
batch_size == 50

\* rows[i:i + batch_size], i counted from 0
batch_slice(rows, i) == SubSeq(rows, i + 1, Min({i + batch_size, Len(rows)}))

\* the loop that stops at the first batch whose upsert raised
RECURSIVE upsert_loop_abort(_, _, _, _)
upsert_loop_abort(rows, i, failing, sent) ==
    IF i >= Len(rows) THEN sent
    ELSE LET batch == batch_slice(rows, i)
             batch_num == (i \div batch_size) + 1
             raised == batch_num \in failing
             entry == [batch |-> batch, batch_num |-> batch_num,
                       raised |-> raised,
                       slept |-> ~raised /\ i + batch_size < Len(rows)]
         IN  IF raised THEN Append(sent, entry)
             ELSE upsert_loop_abort(rows, i + batch_size, failing,
                                    Append(sent, entry))

\* for i in range(0, total_rows, batch_size): the upsert of the batch, and
\* the sleep when it returned and rows remain; an exception of the upsert
\* is logged inside the loop.  failing: the batches whose upsert raises
RECURSIVE upsert_loop(_, _, _, _)
upsert_loop(rows, i, failing, sent) ==
    IF i >= Len(rows) THEN sent
    ELSE LET batch == batch_slice(rows, i)
             batch_num == (i \div batch_size) + 1
             raised == batch_num \in failing
             entry == [batch |-> batch, batch_num |-> batch_num,
                       raised |-> raised,
                       slept |-> ~raised /\ i + batch_size < Len(rows)]
         IN  upsert_loop(rows, i + batch_size, failing, Append(sent, entry))

\* the upsert calls made, in order; none without a client or without rows
upsert_jobs_to_supabase(client, rows, failing) ==
    IF client = None \/ rows = <<>> THEN <<>>
    ELSE upsert_loop(rows, 0, failing, <<>>)

\* rows of the merged table, by position
MaxRows == 101

total_batches(total_rows) == (total_rows + batch_size - 1) \div batch_size

CallUpsert ==
    \E client \in {None, [url |-> L1]}, total_rows \in 0..MaxRows :
    \E failing \in SUBSET (1..total_batches(total_rows)) :
        /\ NoCallYet
        /\ client = None => failing = {}
        /\ LET rows == [k \in 1..total_rows |-> k]
           IN  call' = [fn |-> "upsert_jobs_to_supabase", client |-> client,
                        rows |-> rows, failing |-> failing,
                        sent |-> upsert_jobs_to_supabase(client, rows, failing)]
        /\ UNCHANGED <<mvars, svars, pvars>>

\* the result of the run of Spec, as main receives it
run_result ==
    IF phase = "aborted" \/ last.kind = "raised" THEN "raises"
    ELSE IF last.kind = "no_jobs" THEN "None"
    ELSE IF last.kind = "merged" THEN "df"
    ELSE "running"

----------------------------------------------------------------------------
(* Properties of the command line *)

MainCall == call.fn = "main"

\* C21: every invocation that leaves no usable output (no table from the
\* crawl, no site from the PDF, no saved session) ends with a status other
\* than 0
C21_ZeroOutputExits == MainCall /\ ~call.usable => call.exit # 0

\* the same for the crawl and the PDF export alone
ZeroOutputExits_CrawlAndPdf ==
    MainCall /\ ~call.args.save_linkedin /\ ~call.usable => call.exit # 0

----------------------------------------------------------------------------
(* Properties of the remote upsert *)

UpsertCall == call.fn = "upsert_jobs_to_supabase" /\ call.client # None

RECURSIVE flatten(_)
flatten(batches) ==
    IF batches = <<>> THEN <<>>
    ELSE Head(batches).batch \o flatten(Tail(batches))

\* C22: with a client, the batches sent are consecutive slices of the rows
\* of at most 50 rows each, together they are the rows, each row once, and
\* every batch is sent whether or not an earlier one failed
C22_UpsertBatches ==
    UpsertCall =>
        /\ flatten(call.sent) = call.rows
        /\ Len(call.sent) = total_batches(Len(call.rows))
        /\ \A k \in DOMAIN call.sent :
              /\ call.sent[k].batch_num = k
              /\ Len(call.sent[k].batch) \in 1..batch_size
              /\ call.sent[k].raised = (k \in call.failing)

\* three batches, the first of which failed
C22_Witness ==
    /\ UpsertCall
    /\ Len(call.rows) > 2 * batch_size
    /\ call.failing = {1}
    /\ Len(call.sent) = 3

----------------------------------------------------------------------------
(* Properties of the life of a site in the loop *)

Allowed(type) == \E i \in DOMAIN site_filter : site_filter[i] = type

\* disabled, or an allowlist was given that does not name the site's type
PassedOver(k) ==
    \/ ~Sites[k].enabled
    \/ (site_filter # <<>> /\ ~Allowed(Sites[k].type))

AllOpen == \A x \in Resources : res[x] = "open"

\* the step the loop makes from a site that is pending
PendingStep ==
    (InLoop /\ pc = "pending") =>
        IF PassedOver(idx)
        THEN /\ status' = [status EXCEPT ![idx] = "skipped"]
             /\ idx' = idx + 1
             /\ pc' = "pending"
             /\ events' = <<>>
             /\ UNCHANGED <<res, attempt, navs, extract_calls, torn, all_jobs,
                            contrib, filter_profiles, profiles_updated,
                            profile_store, config, applied>>
        ELSE /\ idx' = idx
             /\ status'[idx] # "skipped"
             /\ pc' \in {"scrape", "close"}
             /\ \E k \in 0..4 : res' = start_browser(k)

\* C23: a site that is disabled or not in the allowlist goes from pending to
\* skipped in one step that starts no browser, navigates nowhere, adds no
\* record and leaves the profile cache alone; for every other site the step
\* from pending is the call of start_browser
C23_SkippedSites ==
    /\ [][PendingStep]_vars
    /\ [](\A k \in SiteIds :
            /\ PassedOver(k) => status[k] \in {"pending", "skipped"}
            /\ status[k] = "skipped" =>
                  /\ PassedOver(k)
                  /\ ~torn[k]
                  /\ contrib[k] = <<>>
                  /\ config[k] = NewConfig
                  /\ applied[k] = None)

\* an allowlist left P&G out, LinkedIn is disabled, Amazon was scraped
C23_Witness ==
    /\ site_filter # <<>>
    /\ status[1] = "ok"
    /\ status[2] = "skipped"
    /\ status[3] = "skipped"
    /\ idx = 4
    /\ pc = "scrape"
    /\ AllOpen

Of(kind) == {i \in DOMAIN events : events[i].e = kind}

\* the loop body of the site in hand has been left
BodyLeft == events # <<>> /\ (pc = "pending" \/ RunOver)

\* C24: of the calls made for a site, start_browser is the first and is made
\* once; a scrape attempt is made only with the browser started; a run of
\* the extraction method comes after a navigation of the same attempt that
\* returned, with no navigation between them; close_browser is called once,
\* as the last call, and has been called when the loop body is left
C24_EventOrder ==
    /\ events # <<>> => Of("start_browser") = {1}
    /\ (Of("goto") \cup Of("extract") \cup Of("sleep")) # {} => events[1].ok
    /\ \A i \in Of("extract") :
          /\ i > 1
          /\ events[i - 1].e = "goto"
          /\ events[i - 1].ok
          /\ events[i - 1].attempt = events[i].attempt
    /\ \A i \in Of("goto") :
          events[i].ok =>
              i < Len(events) /\ events[i + 1].e = "extract"
    /\ \A i, j \in Of("goto") \cup Of("extract") :
          i < j => events[i].attempt <= events[j].attempt
    /\ Of("close_browser") \subseteq {Len(events)}
    /\ BodyLeft => Of("close_browser") = {Len(events)}
    /\ (InLoop /\ pc = "close") => Of("close_browser") = {}
    /\ (InLoop /\ pc = "scrape") => Of("close_browser") = {}

\* a first attempt whose two navigations raised, a second that navigated
\* and extracted, then the teardown
C24_Witness ==
    /\ Len(events) = 7
    /\ events[1] = [e |-> "start_browser", ok |-> TRUE]
    /\ events[2] = goto(1, "networkidle", FALSE)
    /\ events[3] = goto(1, "domcontentloaded", FALSE)
    /\ events[4].e = "sleep"
    /\ events[5] = goto(2, "networkidle", TRUE)
    /\ events[6] = [e |-> "extract", attempt |-> 2]
    /\ events[7] = [e |-> "close_browser", ok |-> TRUE]

\* the attempt of the scrape that event i belongs to ran the extraction
Extracted(n) == \E i \in Of("extract") : events[i].attempt = n

\* C25: in a scrape attempt the first navigation waits for 'networkidle';
\* one with 'domcontentloaded' is made only right after the first raised,
\* and is made whenever it raised; the extraction runs in the attempt if and
\* only if one of the two returned, and nothing follows a navigation that
\* returned but the extraction
C25_NavigationOrder ==
    \A i \in Of("goto") :
        /\ i > 1
        /\ events[i].wait_until = "networkidle" =>
              /\ events[i - 1].e \in {"start_browser", "sleep"}
              /\ ~events[i].ok =>
                    /\ i < Len(events)
                    /\ events[i + 1].e = "goto"
                    /\ events[i + 1].wait_until = "domcontentloaded"
                    /\ events[i + 1].attempt = events[i].attempt
        /\ events[i].wait_until = "domcontentloaded" =>
              events[i - 1] = goto(events[i].attempt, "networkidle", FALSE)
        /\ events[i].ok =>
              /\ i < Len(events)
              /\ events[i + 1] = [e |-> "extract", attempt |-> events[i].attempt]
        /\ (events[i].wait_until = "domcontentloaded" /\ ~events[i].ok) =>
              /\ ~Extracted(events[i].attempt)
              /\ i < Len(events) => events[i + 1].e \in {"sleep", "close_browser"}
        /\ Extracted(events[i].attempt) =>
              \E j \in Of("goto") :
                  events[j].attempt = events[i].attempt /\ events[j].ok

\* the first navigation raised, the second returned and the extraction ran
C25_Witness ==
    /\ Len(events) >= 4
    /\ events[2] = goto(1, "networkidle", FALSE)
    /\ events[3] = goto(1, "domcontentloaded", TRUE)
    /\ events[4] = [e |-> "extract", attempt |-> 1]
    /\ status[idx] = "ok"

----------------------------------------------------------------------------
(* Properties of the expansion of listing pages *)

ExpandCall == call.fn = "expand_listing_links"

HasListingToken(link) == any_in(listing_tokens, lower(link))

HasJobToken(link) == any_in(job_tokens, lower(link))

\* what the claim says of the result and of the links the adapter goes on
\* to process
ExpansionResult ==
    /\ Len(call.fetched) <= 5
    /\ \A k \in DOMAIN call.fetched :
          In(call.fetched[k], call.links) /\ HasListingToken(call.fetched[k])
    /\ \A k \in DOMAIN call.result : HasJobToken(call.result[k])
    /\ NoDuplicates(call.result)
    /\ Len(call.result) <= call.max_jobs
    /\ call.scrape_links =
           IF call.result = <<>> THEN call.links ELSE call.result

ListingExpansion_JobPathOnly ==
    ExpandCall =>
        /\ ExpansionResult
        /\ \A k \in DOMAIN call.fetched :
              ~contains(lower(call.fetched[k]), <<"/", "j", "o", "b", "/">>)
        /\ \A k \in DOMAIN call.links :
              (HasListingToken(call.links[k])
                 /\ ~contains(lower(call.links[k]), <<"/", "j", "o", "b",
                     "/">>)
                 /\ Len(call.fetched) < 5)
              => In(call.links[k], call.fetched)

\* six links qualify and five are opened; one page fails, the others give
\* job links
ListingExpansion_Witness ==
    /\ ExpandCall
    /\ Len(call.fetched) = 5
    /\ Len(call.links) >= 7
    /\ \E k \in DOMAIN call.pages : call.pages[k] = Raises
    /\ Len(call.result) = 2

----------------------------------------------------------------------------
(* Properties of the sessions *)

\* the step opens a handle
Acquires == \E x \in Resources : res'[x] = "open" /\ res[x] # "open"

\* C27: open handles are those of the site in hand; when the loop stands
\* before a site no handle is open; a handle is opened only when none is
\* open, for a site all of whose predecessors have been skipped or torn
\* down
C27_SequentialSessions ==
    /\ [](Leaked => (idx \in SiteIds /\ ~PassedOver(idx)))
    /\ [](pc = "pending" => ~Leaked)
    /\ [][Acquires =>
             /\ ~Leaked
             /\ pc = "pending"
             /\ idx' = idx
             /\ \A k \in 1..(idx - 1) :
                   status[k] = "skipped" \/ (Processed(k) /\ torn[k])]_vars

\* the second site holds a started browser after the first was torn down
C27_Witness ==
    /\ idx = 2
    /\ pc = "scrape"
    /\ AllOpen
    /\ Processed(1)
    /\ torn[1]

----------------------------------------------------------------------------
(* Properties of the retry of scrape *)

GotosOf(n) == {i \in Of("goto") : events[i].attempt = n}

\* the scrape attempt n raised: both of its navigations did
AttemptFailed(n) ==
    /\ Cardinality(GotosOf(n)) = 2
    /\ \A i \in GotosOf(n) : ~events[i].ok

RetryBounds ==
    /\ attempt <= 3
    /\ navs <= 6
    /\ sleeps <= 2
    /\ Cardinality(Of("goto")) <= 6
    /\ Cardinality(Of("sleep")) <= 2
    /\ \A i \in Of("goto") : events[i].attempt \in 1..3
    /\ \A i \in Of("sleep") :
          /\ events[i].attempt < 3
          /\ AttemptFailed(events[i].attempt)
          /\ i < Len(events) =>
                events[i + 1] = goto(events[i].attempt + 1, "networkidle",
                                     events[i + 1].ok)
    /\ \A i \in Of("extract") :
          i < Len(events) => events[i + 1].e = "close_browser"
    /\ (InLoop /\ pc = "close" /\ status[idx] = "ok") =>
          /\ Of("extract") = {Len(events)}
          /\ \A n \in 1..(attempt - 1) : AttemptFailed(n)
    /\ (InLoop /\ pc = "close" /\ status[idx] = "failed" /\ events[1].ok) =>
          /\ attempt = 3
          /\ \A n \in 1..3 : AttemptFailed(n)
          /\ Of("extract") = {}
          /\ events[Len(events)] = goto(3, "domcontentloaded", FALSE)

\* C28: a site is scraped at most 3 times with at most 6 navigations and 2
\* sleeps, each sleep between a failed attempt and the next; the first
\* attempt that returns ends the retry, the third failure leaves scrape as
\* a failure of the site; and the processing of every site comes to an end
C28_BoundedRetry ==
    /\ []RetryBounds
    /\ \A k \in SiteIds : (idx = k) ~> (idx > k \/ RunOver)

\* three attempts that all failed to navigate
C28_Witness ==
    /\ InLoop
    /\ pc = "close"
    /\ status[idx] = "failed"
    /\ attempt = 3
    /\ navs = 6
    /\ sleeps = 2
    /\ Len(events) = 9

----------------------------------------------------------------------------
(* Properties of the batch *)

IsPrefix(s, t) == Len(s) <= Len(t) /\ SubSeq(t, 1, Len(s)) = s

\* a step changes the batch only by adding, at its end, the records of the
\* site in hand, whose scrape attempt then returned
BatchStep ==
    /\ IsPrefix(all_jobs, all_jobs')
    /\ \A k \in SiteIds : k # idx => contrib'[k] = contrib[k]
    /\ all_jobs' # all_jobs =>
          /\ InLoop
          /\ status[idx] = "pending"
          /\ status'[idx] = "ok"
          /\ all_jobs' = all_jobs \o contrib'[idx]
          /\ contrib'[idx] = SelectSeq(jobs', Complete)
          /\ events'[Len(events')].e = "extract"

\* C29: the batch is the valid records of the sites whose scrape returned,
\* site after site; a site adds the complete records of the one attempt
\* that returned, a site that failed or was skipped adds none, and no step
\* removes or changes a record added before
C29_BatchAppendOnly ==
    /\ [](all_jobs = ConcatTo(contrib, Len(Sites)))
    /\ [](\A k \in SiteIds : status[k] # "ok" => contrib[k] = <<>>)
    /\ []((InLoop /\ pc = "close" /\ status[idx] = "ok") =>
             /\ contrib[idx] = SelectSeq(jobs, Complete)
             /\ Cardinality(Of("extract")) = 1)
    /\ []((InLoop /\ pc = "close" /\ status[idx] = "failed") =>
             jobs = <<>> /\ contrib[idx] = <<>>)
    /\ [][BatchStep]_vars

\* the second site adds its records, after an attempt of it that raised, to
\* those of the first
C29_Witness ==
    /\ idx = 2
    /\ pc = "close"
    /\ status[2] = "ok"
    /\ attempt = 2
    /\ contrib[1] # <<>>
    /\ contrib[2] # <<>>
    /\ Len(jobs) > Len(contrib[2])
    /\ all_jobs = contrib[1] \o contrib[2]

----------------------------------------------------------------------------

CNext == CallInfer \/ CallApply \/ CallYears \/ CallKeywords \/ CallExtract
             \/ CallMain
             \/ CallUpsert
             \/ CallExpand

SpecCalls == MInit /\ [][CNext]_vars

====
